---------------------------- MODULE Spec2Model ----------------------------
(***************************************************************************)
(* A model of the WebAssembly toolkit: the binary codec of                  *)
(* elements/primitives.rs and elements/section.rs, and the function         *)
(* validator of interpreter/validator.rs over common/stack.rs.              *)
(*                                                                          *)
(* Machine integers are bit vectors: a u32/i32/u64/i64 value is the set of  *)
(* the positions of its 1 bits (bit 0 least significant), so that the       *)
(* shifts, masks and ors of the code are computed at their real width.      *)
(* Bytes are the naturals 0..255.                                           *)
(***************************************************************************)
EXTENDS Integers, Sequences, FiniteSets, TLC

VARIABLES
    \* ---- codec (elements/primitives.rs, elements/section.rs)
    kind,              \* the type being (de)serialized
    val,               \* the in-memory value the caller holds
    tail,              \* bytes that follow the encoding in the reader
    buf,               \* the reader's bytes
    out,               \* the writer's bytes
    res,               \* the result of the last deserialize
    phase,             \* the caller's position
    debug_assertions,  \* the build: overflow checks on (debug) or off (release)
    \* ---- validator (interpreter/validator.rs)
    body_len,          \* body.len()
    opcode,            \* body[position] as last fetched by the loop
    return_type,       \* the signature's return type, as a BlockType
    position,          \* context.position
    value_stack,       \* context.value_stack.values
    frame_stack,       \* context.frame_stack.values
    labels,            \* context.labels
    vstate,            \* the validator's position in validate_function
    error,             \* the Err returned, if any
    \* ---- program registry (interpreter/program.rs)
    modules,           \* essence.modules: the HashMap inside the RwLock
    rwlock,            \* the RwLock: the thread writing, the threads reading
    threads,           \* each thread's call in progress and its position in it
    started,           \* the instances whose run_start_function has returned
    calls,             \* the calls made on the program so far
    \* ---- native module (interpreter/env_native.rs)
    native,            \* the NativeModuleInstance: its functions and globals
    call_stack,        \* the call_internal_function calls in progress, outermost first
    executor,          \* the RwLock around the executor: the call holding its write guard
    returned,          \* what the last call on the native module returned
    \* ---- a stack on its own (common/stack.rs)
    stack              \* a StackWithLimit: its values, its limit, the last result

codec_vars == <<kind, val, tail, buf, out, res, phase, debug_assertions>>
validator_vars == <<body_len, opcode, return_type, position, value_stack,
                    frame_stack, labels, vstate, error>>
program_vars == <<modules, rwlock, threads, started, calls>>
native_vars == <<native, call_stack, executor, returned>>
stack_vars == <<stack>>
vars == <<codec_vars, validator_vars, program_vars, native_vars, stack_vars>>

----------------------------------------------------------------------------
(* Bit vectors and bytes                                                    *)

\* The value of bit i of byte b.
ByteBit(b, i) == (b \div (2 ^ i)) % 2

\* The byte as a bit vector.
ByteBits(b) == {i \in 0..7 : ByteBit(b, i) = 1}

\* (v & 0b0111_1111) as u8
Low7(v) ==
    LET bit(i) == IF i \in v THEN 2 ^ i ELSE 0
    IN bit(0) + bit(1) + bit(2) + bit(3) + bit(4) + bit(5) + bit(6)

\* x << n at width w: the bits shifted out of the width are lost.
Shl(x, n, w) == {i + n : i \in x} \cap (0..(w - 1))

\* v >> n of an unsigned value.
ShrLogical(v, n) == {i - n : i \in {j \in v : j >= n}}

\* v >> n of a signed value of width w: the sign bit fills the top.
ShrArith(v, n, w) ==
    ShrLogical(v, n) \cup (IF (w - 1) \in v THEN (w - n)..(w - 1) ELSE {})

\* (1 << n).wrapping_neg() at width w, for n < w: -2^n.
NegPow2(n, w) == n..(w - 1)

\* -1 at width w.
AllOnes(w) == 0..(w - 1)

\* usize -> u32 (VarUint32::from(usize)); the lengths of the model fit 31 bits.
USizeToU32(n) == {i \in 0..30 : (n \div (2 ^ i)) % 2 = 1}

\* Whether a u32 is small enough to be a length inside the model's buffers.
IsSmall(v) == v \subseteq 0..20

RECURSIVE SumBits(_)
SumBits(v) ==
    IF v = {} THEN 0
    ELSE LET i == CHOOSE j \in v : TRUE IN (2 ^ i) + SumBits(v \ {i})

\* u32 -> usize, for a small value.
U32ToUSize(v) == SumBits(v)

----------------------------------------------------------------------------
(* Results of deserialization: err is OK or the error, n the number of      *)
(* bytes the reader has given out.                                          *)

OK == "Ok"
IoError == "Io"                  \* an io::Error of read_exact, through From
Panic == "panic"                 \* the thread panics (overflow check)

Done(v, n) == [err |-> OK, val |-> v, n |-> n]
Fail(e, n) == [err |-> e, val |-> {}, n |-> n]

----------------------------------------------------------------------------
(* LEB128 (elements/primitives.rs)                                          *)

\* The loop of VarUint32::deserialize and VarUint64::deserialize, at width w.
\* n bytes are consumed so far.  In a release build a shift amount of w or
\* more is masked to the width; in a debug build it panics.
RECURSIVE VarUint_deserialize(_, _, _, _, _, _)
VarUint_deserialize(reader, n, r, shift, w, debug) ==
    IF n >= Len(reader) THEN Fail(IoError, n)
    ELSE LET b == reader[n + 1]
         IN IF shift >= w /\ debug THEN Fail(Panic, n + 1)
            ELSE LET r1 == r \cup Shl(ByteBits(b) \cap (0..6), shift % w, w)
                 IN IF b \div 128 = 0
                    THEN Done(r1, n + 1)
                    ELSE VarUint_deserialize(reader, n + 1, r1, shift + 7, w, debug)

VarUint32_deserialize(reader, n, debug) ==
    VarUint_deserialize(reader, n, {}, 0, 32, debug)

VarUint64_deserialize(reader, n, debug) ==
    VarUint_deserialize(reader, n, {}, 0, 64, debug)

\* The serialize loop with the value shifted by a whole byte per group.
RECURSIVE VarUint_serialize_Shr8(_)
VarUint_serialize_Shr8(v) ==
    LET b  == Low7(v)
        v1 == ShrLogical(v, 8)
    IN IF v1 # {} THEN <<b + 128>> \o VarUint_serialize_Shr8(v1) ELSE <<b>>

\* The serialize loop ending with a group of its own: every group of the
\* value carries the continuation bit and a zero byte closes the encoding.
RECURSIVE VarUint_serialize_Padded(_)
VarUint_serialize_Padded(v) ==
    LET b  == Low7(v)
        v1 == ShrLogical(v, 7)
    IN <<b + 128>> \o (IF v1 # {} THEN VarUint_serialize_Padded(v1) ELSE <<0>>)

\* The loop of VarUint32::serialize and VarUint64::serialize.
RECURSIVE VarUint_serialize(_)
VarUint_serialize(v) ==
    LET b  == Low7(v)
        v1 == ShrLogical(v, 7)
    IN IF v1 # {} THEN <<b + 128>> \o VarUint_serialize(v1) ELSE <<b>>

VarUint32_serialize(v) == VarUint_serialize(v)

VarUint64_serialize(v) == VarUint_serialize(v)

\* The sign extension of VarInt32::deserialize and VarInt64::deserialize:
\* applied after the last byte b, shift already advanced.
SignExtendNone(r, b, shift, w) == r

SignExtend(r, b, shift, w) ==
    IF shift < w /\ ByteBit(b, 6) = 1 THEN r \cup NegPow2(shift, w) ELSE r

\* The loop without the test of shift at its head.
RECURSIVE VarInt_deserialize_NoLimit(_, _, _, _, _, _)
VarInt_deserialize_NoLimit(reader, n, r, shift, w, invalid) ==
    IF n >= Len(reader) THEN Fail(IoError, n)
    ELSE LET b  == reader[n + 1]
             r1 == r \cup Shl(ByteBits(b) \cap (0..6), shift, w)
         IN IF b \div 128 = 0
            THEN Done(SignExtend(r1, b, shift + 7, w), n + 1)
            ELSE VarInt_deserialize_NoLimit(reader, n + 1, r1, shift + 7, w, invalid)

\* The loop of VarInt32::deserialize and VarInt64::deserialize, at width w;
\* invalid is InvalidVarInt32 or InvalidVarInt64.
RECURSIVE VarInt_deserialize(_, _, _, _, _, _)
VarInt_deserialize(reader, n, r, shift, w, invalid) ==
    IF shift > w - 1 THEN Fail(invalid, n)
    ELSE IF n >= Len(reader) THEN Fail(IoError, n)
    ELSE LET b  == reader[n + 1]
             r1 == r \cup Shl(ByteBits(b) \cap (0..6), shift, w)
         IN IF b \div 128 = 0
            THEN Done(SignExtend(r1, b, shift + 7, w), n + 1)
            ELSE VarInt_deserialize(reader, n + 1, r1, shift + 7, w, invalid)

VarInt32_deserialize(reader, n) ==
    VarInt_deserialize(reader, n, {}, 0, 32, "InvalidVarInt32")

VarInt64_deserialize(reader, n) ==
    VarInt_deserialize(reader, n, {}, 0, 64, "InvalidVarInt64")

\* The serialize loop with a logical shift in place of `v >>= 7`.
RECURSIVE VarInt_serialize_ShrLogical(_, _)
VarInt_serialize_ShrLogical(v, w) ==
    LET b  == Low7(v)
        v1 == ShrLogical(v, 7)
        last == \/ (v1 = {} /\ ByteBit(b, 6) = 0)
                \/ (v1 = AllOnes(w) /\ ByteBit(b, 6) = 1)
    IN IF last THEN <<b>> ELSE <<b + 128>> \o VarInt_serialize_ShrLogical(v1, w)

\* The loop of VarInt32::serialize and VarInt64::serialize, at width w.
RECURSIVE VarInt_serialize(_, _)
VarInt_serialize(v, w) ==
    LET b  == Low7(v)
        v1 == ShrArith(v, 7, w)
        last == \/ (v1 = {} /\ ByteBit(b, 6) = 0)
                \/ (v1 = AllOnes(w) /\ ByteBit(b, 6) = 1)
    IN IF last THEN <<b>> ELSE <<b + 128>> \o VarInt_serialize(v1, w)

VarInt32_serialize(v) == VarInt_serialize(v, 32)

VarInt64_serialize(v) == VarInt_serialize(v, 64)


\* Eight bits as a byte.
BitsToByte(v) ==
    LET bit(i) == IF i \in v THEN 2 ^ i ELSE 0
    IN Low7(v) + bit(7)

\* VarUint7::deserialize: the byte as read (no range check).
VarUint7_deserialize(reader, n) ==
    IF n >= Len(reader) THEN Fail(IoError, n) ELSE Done(reader[n + 1], n + 1)

VarUint7_serialize(v) == <<v>>

\* The byte as read, without the sign expansion.
VarInt7_deserialize_NoSignExpansion(reader, n) ==
    IF n >= Len(reader) THEN Fail(IoError, n)
    ELSE Done(ByteBits(reader[n + 1]), n + 1)

\* VarInt7::deserialize: an i8, bit 6 copied into bit 7.
VarInt7_deserialize(reader, n) ==
    IF n >= Len(reader) THEN Fail(IoError, n)
    ELSE LET bits == ByteBits(reader[n + 1])
         IN Done(IF 6 \in bits THEN bits \cup {7} ELSE bits, n + 1)

\* VarInt7::serialize of an i8.
VarInt7_serialize(v) ==
    <<BitsToByte(IF 7 \in v THEN (v \cup {6}) \ {7} ELSE v)>>

\* reader.read_exact of count bytes (count a usize).
ReadExact(reader, n, count) ==
    IF n + count > Len(reader) THEN Fail(IoError, n)
    ELSE Done(SubSeq(reader, n + 1, n + count), n + count)

\* std String::from_utf8: whether the bytes are well-formed UTF-8.  Lead and
\* continuation bytes are disjoint, so the bytes split into characters in
\* one way only: every lead byte has its continuation bytes after it and
\* every continuation byte has its lead byte before it.
Utf8Width(b) ==
    IF b < 128 THEN 1
    ELSE IF b \in 194..223 THEN 2
    ELSE IF b \in 224..239 THEN 3
    ELSE IF b \in 240..244 THEN 4
    ELSE 0

IsUtf8(s) ==
    LET second(b) ==
            IF b = 224 THEN 160..191
            ELSE IF b = 237 THEN 128..159
            ELSE IF b = 240 THEN 144..191
            ELSE IF b = 244 THEN 128..143
            ELSE 128..191
    IN \A i \in 1..Len(s) :
        IF s[i] \in 128..191
        THEN \E d \in 1..3 :
                /\ i - d >= 1
                /\ Utf8Width(s[i - d]) > d
                /\ \A e \in 1..(d - 1) : s[i - e] \in 128..191
        ELSE /\ Utf8Width(s[i]) > 0
             /\ \A j \in 1..(Utf8Width(s[i]) - 1) :
                    /\ i + j <= Len(s)
                    /\ s[i + j] \in (IF j = 1 THEN second(s[i]) ELSE 128..191)

\* String::deserialize: a VarUint32 length, then that many bytes of UTF-8.
\* A length beyond the model's buffers cannot be read from them.
String_deserialize(reader, n, debug) ==
    LET l == VarUint32_deserialize(reader, n, debug)
    IN IF l.err # OK THEN l
       ELSE IF l.val = {} THEN Done(<<>>, l.n)
       ELSE IF ~IsSmall(l.val) THEN Fail(IoError, l.n)
       ELSE LET r == ReadExact(reader, l.n, U32ToUSize(l.val))
            IN IF r.err # OK THEN r
               ELSE IF IsUtf8(r.val) THEN r
               ELSE Fail("NonUtf8String", r.n)

\* String::serialize.
String_serialize(s) == VarUint32_serialize(USizeToU32(Len(s))) \o s

\* T::deserialize for the element types whose decoders are in this source;
\* the other element types (Type, ImportEntry, ...) are not modelled.
Unmodelled == "Unmodelled"

Elem_deserialize(elem, reader, n, debug) ==
    IF elem = "VarUint32" THEN VarUint32_deserialize(reader, n, debug)
    ELSE IF elem = "VarInt7" THEN VarInt7_deserialize(reader, n)
    ELSE Fail(Unmodelled, n)

Elem_serialize(elem, v) ==
    IF elem = "VarUint32" THEN VarUint32_serialize(v) ELSE VarInt7_serialize(v)

\* The for loop of CountedList::deserialize: left elements still to read.
RECURSIVE CountedList_loop(_, _, _, _, _, _)
CountedList_loop(reader, n, left, acc, elem, debug) ==
    IF left = 0 THEN Done(acc, n)
    ELSE LET e == Elem_deserialize(elem, reader, n, debug)
         IN IF e.err # OK THEN e
            ELSE CountedList_loop(reader, e.n, left - 1, Append(acc, e.val), elem, debug)

\* CountedList::deserialize.  Every element takes at least one byte, so a
\* count beyond the model's buffers runs into the end of the reader.
CountedList_deserialize(reader, n, elem, debug) ==
    LET c == VarUint32_deserialize(reader, n, debug)
    IN IF c.err # OK THEN c
       ELSE IF ~IsSmall(c.val)
            THEN Fail(IF elem \in {"VarUint32", "VarInt7"} THEN IoError ELSE Unmodelled, c.n)
       ELSE CountedList_loop(reader, c.n, U32ToUSize(c.val), <<>>, elem, debug)

RECURSIVE ConcatAll(_, _)
ConcatAll(elem, s) ==
    IF s = <<>> THEN <<>> ELSE Elem_serialize(elem, Head(s)) \o ConcatAll(elem, Tail(s))

\* CountedListWriter::serialize.
CountedListWriter_serialize(len_us, elem, data) ==
    VarUint32_serialize(USizeToU32(len_us)) \o ConcatAll(elem, data)

\* done() without the length: the buffered data alone.
CountedWriter_done_NoLength(data) == data

\* CountedWriter::done: the length of the buffered data, then the data.
CountedWriter_done(data) == VarUint32_serialize(USizeToU32(Len(data))) \o data

----------------------------------------------------------------------------
(* Sections (elements/section.rs)                                           *)

\* CustomSection::deserialize.  The payload length is the section length
\* minus name.len() + name.len() / 128 + 1, a u32 subtraction: when it
\* overflows, a debug build panics and a release build wraps to a length of
\* nearly 2^32, which read_exact cannot fill.
CustomSection_deserialize(reader, n, debug) ==
    LET l == VarUint32_deserialize(reader, n, debug)
    IN IF l.err # OK THEN l
       ELSE LET nm == String_deserialize(reader, l.n, debug)
            IN IF nm.err # OK THEN nm
               ELSE LET header == Len(nm.val) + (Len(nm.val) \div 128) + 1
                    IN IF ~IsSmall(l.val) THEN Fail(IoError, nm.n)
                       ELSE IF U32ToUSize(l.val) < header
                            THEN Fail(IF debug THEN Panic ELSE IoError, nm.n)
                       ELSE LET p == ReadExact(reader, nm.n, U32ToUSize(l.val) - header)
                            IN IF p.err # OK THEN p
                               ELSE Done([type |-> "Custom", name |-> nm.val,
                                          payload |-> p.val], p.n)

\* CustomSection::serialize: name and payload through a CountedWriter.
CustomSection_serialize(s) == CountedWriter_done(String_serialize(s.name) \o s.payload)

\* Unparsed::deserialize (elements/mod.rs): a VarUint32 length and that many
\* raw bytes, which are kept as the payload.
Unparsed_deserialize(reader, n, debug) ==
    LET l == VarUint32_deserialize(reader, n, debug)
    IN IF l.err # OK THEN l
       ELSE IF ~IsSmall(l.val) THEN Fail(IoError, l.n)
       ELSE ReadExact(reader, l.n, U32ToUSize(l.val))

\* The element type of the counted list a section of this id holds.
ElemOf(id) == IF id = 3 THEN "VarUint32" ELSE "Other"

\* TypeSection::deserialize and the eight like it: the section length is
\* read and dropped, then a counted list.
ListSection_deserialize(id, reader, n, debug) ==
    LET l == VarUint32_deserialize(reader, n, debug)
    IN IF l.err # OK THEN l
       ELSE LET c == CountedList_deserialize(reader, l.n, ElemOf(id), debug)
            IN IF c.err # OK THEN c
               ELSE Done([type |-> "List", id |-> id, entries |-> c.val], c.n)

\* Section::deserialize.
Section_deserialize(reader, n, debug) ==
    LET i == VarUint7_deserialize(reader, n)
    IN IF i.err # OK THEN Fail("UnexpectedEof", i.n)
       ELSE IF i.val = 0 THEN CustomSection_deserialize(reader, i.n, debug)
       ELSE IF i.val = 8
            THEN LET l == VarUint32_deserialize(reader, i.n, debug)
                 IN IF l.err # OK THEN l
                    ELSE LET x == VarUint32_deserialize(reader, l.n, debug)
                         IN IF x.err # OK THEN x
                            ELSE Done([type |-> "Start", index |-> x.val], x.n)
       ELSE IF i.val \in 1..11 THEN ListSection_deserialize(i.val, reader, i.n, debug)
       ELSE LET u == Unparsed_deserialize(reader, i.n, debug)
            IN IF u.err # OK THEN u
               ELSE Done([type |-> "Unparsed", id |-> i.val, payload |-> u.val], u.n)

\* Section::serialize.
Section_serialize(s) ==
    IF s.type = "Custom" THEN VarUint7_serialize(0) \o CustomSection_serialize(s)
    ELSE IF s.type = "Unparsed" THEN VarUint7_serialize(s.id) \o s.payload
    ELSE IF s.type = "Start"
         THEN VarUint7_serialize(8) \o CountedWriter_done(VarUint32_serialize(s.index))
    ELSE VarUint7_serialize(s.id)
         \o CountedWriter_done(
                CountedListWriter_serialize(Len(s.entries), ElemOf(s.id), s.entries))

----------------------------------------------------------------------------
(* The codec as a state machine: a caller serializes a value and reads it   *)
(* back, or reads bytes, writes the value back and reads that again.        *)

\* The longest section content and the byte alphabet of the section inputs.
MaxContent == 3
ContentBytes == {0, 1, 97, 129}

\* Integers of width w: 2^k - 1, 2^k, -2^k, -2^k - 1 for every k, and
\* striped patterns.
IntValues(w) ==
    {0..(k - 1) : k \in 0..w} \cup {{k} : k \in 0..(w - 1)}
    \cup {k..(w - 1) : k \in 0..w} \cup {(0..(w - 1)) \ {k} : k \in 0..(w - 1)}
    \cup {{i \in 0..(w - 1) : i % 7 = r} : r \in 0..6}
    \cup {{i \in 0..(w - 1) : i % 2 = r} : r \in 0..1}

NameOfLen(len) == [i \in 1..len |-> 97]

\* Names up to and across the lengths whose VarUint32 prefix takes two bytes.
Names == {NameOfLen(len) : len \in {0, 1, 127, 128, 255, 256, 300}} \cup {<<195, 169>>}

Payloads == {<<>>, <<7>>, <<7, 0, 255>>}

CustomSections == {[type |-> "Custom", name |-> nm, payload |-> p] : nm \in Names, p \in Payloads}

Tails == {<<>>, <<129, 0>>}

IntKinds == {"VarInt32", "VarInt64", "VarUint32", "VarUint64"}

ValuesOf(k) ==
    IF k \in {"VarInt32", "VarUint32"} THEN IntValues(32)
    ELSE IF k \in {"VarInt64", "VarUint64"} THEN IntValues(64)
    ELSE CustomSections

RECURSIVE SeqsUpTo(_, _)
SeqsUpTo(S, len) ==
    IF len = 0 THEN {<<>>}
    ELSE LET shorter == SeqsUpTo(S, len - 1)
         IN shorter \cup {Append(q, x) : q \in {t \in shorter : Len(t) = len - 1}, x \in S}

\* Section bytes: an id, a declared payload length (minimal, or padded to two
\* bytes), and content that may be shorter or longer than declared.
SectionIds == {0, 1, 3, 8, 11, 12, 127}

SectionInputs ==
    {<<id>> \o l \o c :
        id \in SectionIds,
        l \in {<<d>> : d \in 0..MaxContent} \cup {<<128 + d, 0>> : d \in 0..MaxContent},
        c \in SeqsUpTo(ContentBytes, MaxContent)}

Serialize(k, v) ==
    CASE k = "VarInt32" -> VarInt32_serialize(v)
      [] k = "VarInt64" -> VarInt64_serialize(v)
      [] k = "VarUint32" -> VarUint32_serialize(v)
      [] k = "VarUint64" -> VarUint64_serialize(v)
      [] k = "VarInt7" -> VarInt7_serialize(v)
      [] k = "CustomSection" -> CustomSection_serialize(v)
      [] k = "Section" -> Section_serialize(v)

Deserialize(k, reader, debug) ==
    CASE k = "VarInt32" -> VarInt32_deserialize(reader, 0)
      [] k = "VarInt64" -> VarInt64_deserialize(reader, 0)
      [] k = "VarUint32" -> VarUint32_deserialize(reader, 0, debug)
      [] k = "VarUint64" -> VarUint64_deserialize(reader, 0, debug)
      [] k = "VarInt7" -> VarInt7_deserialize(reader, 0)
      [] k = "CustomSection" -> CustomSection_deserialize(reader, 0, debug)
      [] k = "Section" -> Section_deserialize(reader, 0, debug)

NotRead == [err |-> "NotRead", val |-> {}, n |-> 0]

\* The validator is not running.
ValidatorIdle ==
    /\ body_len = 0
    /\ opcode = [op |-> "none"]
    /\ return_type = "NoResult"
    /\ position = 0
    /\ value_stack = <<>>
    /\ frame_stack = <<>>
    /\ labels = <<>>
    /\ vstate = "idle"
    /\ error = OK

\* The codec is not running.
CodecIdle ==
    /\ kind = "none"
    /\ val = {}
    /\ tail = <<>>
    /\ buf = <<>>
    /\ out = <<>>
    /\ res = NotRead
    /\ phase = "idle"

\* No program has been created.
ProgramIdle ==
    /\ modules = <<>>
    /\ rwlock = [writer |-> "none", readers |-> {}]
    /\ threads = <<>>
    /\ started = {}
    /\ calls = 0

\* No native module has been created.
NativeIdle ==
    /\ native = <<>>
    /\ call_stack = <<>>
    /\ executor = 0
    /\ returned = [op |-> "none"]

\* No stack on its own has been created.
StackIdle == stack = [values |-> <<>>, limit |-> 0, err |-> "none"]

InitCodec ==
    /\ ValidatorIdle
    /\ ProgramIdle
    /\ NativeIdle
    /\ StackIdle
    /\ debug_assertions \in BOOLEAN
    /\ out = <<>>
    /\ res = NotRead
    /\ \/ /\ kind \in IntKinds \cup {"CustomSection"}
          /\ val \in ValuesOf(kind)
          /\ tail \in Tails
          /\ buf = <<>>
          /\ phase = "value"
       \/ /\ kind = "Section"
          /\ val = {}
          /\ tail = <<>>
          /\ buf \in {b \in SectionInputs :
                        Section_deserialize(b, 0, debug_assertions).err # Unmodelled}
          /\ phase = "bytes"

\* The caller serializes the value it holds into a fresh writer; a value
\* made by the caller is then put in a reader, followed by the tail.
SerializeValue ==
    /\ phase \in {"value", "parsed"}
    /\ phase = "parsed" => res.err = OK
    /\ out' = Serialize(kind, val)
    /\ buf' = IF phase = "value" THEN out' \o tail ELSE buf
    /\ phase' = IF phase = "value" THEN "written" ELSE "rewritten"
    /\ UNCHANGED <<kind, val, tail, res, debug_assertions>>
    /\ UNCHANGED <<validator_vars, program_vars, native_vars, stack_vars>>

\* The caller deserializes from the reader: the bytes given or written
\* first, and at last the bytes written back.
DeserializeBytes ==
    /\ phase \in {"written", "bytes", "rewritten"}
    /\ res' = Deserialize(kind, IF phase = "rewritten" THEN out ELSE buf, debug_assertions)
    /\ val' = IF phase = "bytes" /\ res'.err = OK THEN res'.val ELSE val
    /\ phase' = CASE phase = "written" -> "read"
                  [] phase = "bytes" -> "parsed"
                  [] phase = "rewritten" -> "reread"
    /\ UNCHANGED <<kind, tail, buf, out, debug_assertions>>
    /\ UNCHANGED <<validator_vars, program_vars, native_vars, stack_vars>>

NextCodec == SerializeValue \/ DeserializeBytes

SpecCodec == InitCodec /\ [][NextCodec]_vars

----------------------------------------------------------------------------
(* Properties of the codec                                                  *)

\* C1: for every i32 (i64) value, deserializing the bytes VarInt32
\* (VarInt64) serialization wrote yields the value and consumes exactly the
\* bytes written, whatever follows them in the reader.
C1_VarIntRoundTrip ==
    (phase = "read" /\ kind \in {"VarInt32", "VarInt64"}) =>
        /\ res.err = OK
        /\ res.val = val
        /\ res.n = Len(out)

\* i32::MIN was written as 80 80 80 80 78 and read back before other bytes.
C1_Witness ==
    /\ phase = "read"
    /\ kind = "VarInt32"
    /\ val = {31}
    /\ out = <<128, 128, 128, 128, 120>>
    /\ tail # <<>>
    /\ res.val = {31}

\* C2: for every u32 (u64) value, deserializing the bytes VarUint32
\* (VarUint64) serialization wrote yields the value and consumes exactly the
\* bytes written, whatever follows them in the reader.
C2_VarUintRoundTrip ==
    (phase = "read" /\ kind \in {"VarUint32", "VarUint64"}) =>
        /\ res.err = OK
        /\ res.val = val
        /\ res.n = Len(out)

\* u64::MAX was written as nine ff bytes and 01 and read back before other bytes.
C2_Witness ==
    /\ phase = "read"
    /\ kind = "VarUint64"
    /\ val = 0..63
    /\ out = <<255, 255, 255, 255, 255, 255, 255, 255, 255, 1>>
    /\ tail # <<>>
    /\ res.val = 0..63

\* C3: a section that deserializes has consumed its id byte, the bytes of
\* its payload_len field and payload_len payload bytes, whether or not the
\* content takes payload_len bytes.
C3_SectionConsumesDeclaredLength ==
    (phase = "parsed" /\ kind = "Section" /\ res.err = OK) =>
        LET l == VarUint32_deserialize(buf, 1, debug_assertions)
        IN res.n = l.n + U32ToUSize(l.val)

\* C4: a section of unknown id is preserved verbatim: serializing the
\* Unparsed value read from bytes B writes B, and reading what was written
\* yields the same id and payload.
C4_UnparsedVerbatim ==
    /\ (phase = "rewritten" /\ kind = "Section" /\ val.type = "Unparsed") =>
           out = SubSeq(buf, 1, res.n)
    /\ (phase = "reread" /\ kind = "Section" /\ val.type = "Unparsed") =>
           (res.err = OK /\ res.val = val)

\* C5: for every custom section, deserializing the bytes its serialization
\* wrote yields the same name and payload and consumes exactly those bytes,
\* for names of every length.
C5_CustomSectionRoundTrip ==
    (phase = "read" /\ kind = "CustomSection") =>
        /\ res.err = OK
        /\ res.val.name = val.name
        /\ res.val.payload = val.payload
        /\ res.n = Len(out)

----------------------------------------------------------------------------
(* common/stack.rs: StackWithLimit over a sequence, the top at the end.     *)

StackLimitMsg == "exceeded stack limit"
StackEmptyMsg == "non-empty stack expected"
StackGetMsg == "trying to get value at position on stack of size"
NoValue == "none"

StackWithLimit_top(values) ==
    IF values = <<>> THEN [err |-> StackEmptyMsg, ret |-> NoValue]
    ELSE [err |-> OK, ret |-> values[Len(values)]]

\* A mis-indexed get: position index counted from the bottom of the stack.
StackWithLimit_get_FromBottom(values, index) ==
    IF index >= Len(values) THEN [err |-> StackGetMsg, ret |-> NoValue]
    ELSE [err |-> OK, ret |-> values[index + 1]]

StackWithLimit_get(values, index) ==
    IF index >= Len(values) THEN [err |-> StackGetMsg, ret |-> NoValue]
    ELSE [err |-> OK, ret |-> values[(Len(values) - 1 - index) + 1]]

\* A push that never finds the stack full.
StackWithLimit_push_Unlimited(values, limit, value) ==
    [err |-> OK, values |-> Append(values, value)]

StackWithLimit_push(values, limit, value) ==
    IF Len(values) >= limit THEN [err |-> StackLimitMsg, values |-> values]
    ELSE [err |-> OK, values |-> Append(values, value)]

StackPenultimateMsg == "trying to insert penultimate element into empty stack"

StackWithLimit_push_penultimate(values, limit, value) ==
    IF values = <<>> THEN [err |-> StackPenultimateMsg, values |-> values]
    ELSE LET r == StackWithLimit_push(values, limit, value)
             last_index == Len(r.values) - 1
             penultimate_index == last_index - 1
         IN IF r.err # OK THEN r
            ELSE [err |-> OK,
                  values |-> [r.values EXCEPT ![last_index + 1] = r.values[penultimate_index + 1],
                                              ![penultimate_index + 1] = r.values[last_index + 1]]]

StackWithLimit_pop(values) ==
    IF values = <<>> THEN [err |-> StackEmptyMsg, values |-> values, ret |-> NoValue]
    ELSE [err |-> OK, values |-> SubSeq(values, 1, Len(values) - 1),
          ret |-> values[Len(values)]]

\* debug_assert!(new_size <= len), then VecDeque::resize: truncate, or fill
\* with the dummy.
StackWithLimit_resize(values, new_size, dummy, debug) ==
    IF debug /\ new_size > Len(values) THEN [err |-> Panic, values |-> values]
    ELSE IF new_size <= Len(values)
         THEN [err |-> OK, values |-> SubSeq(values, 1, new_size)]
         ELSE [err |-> OK,
               values |-> values \o [i \in 1..(new_size - Len(values)) |-> dummy]]

----------------------------------------------------------------------------
(* interpreter/validator.rs: the types.  ValueType is a string; a           *)
(* StackValueType is Any, AnyUnlimited or Specific(t); a BlockType is       *)
(* NoResult or Value(t).                                                    *)

ValueTypes == {"I32", "I64", "F32", "F64"}
StackValueType_Any == "Any"
AnyUnlimited == "AnyUnlimited"
Specific(value_type) == value_type
NoResult == "NoResult"
Value(value_type) == value_type
BlockFrameTypes == {"Function", "Block", "Loop", "IfTrue", "IfFalse"}

ValidateNextInstruction == "ValidateNextInstruction"
Unreachable == "Unreachable"

is_any(t) == t = StackValueType_Any
is_any_unlimited(t) == t = AnyUnlimited

\* impl PartialEq<StackValueType> for StackValueType
StackValueType_eq(a, b) ==
    IF is_any(a) \/ is_any(b) \/ is_any_unlimited(a) \/ is_any_unlimited(b)
    THEN TRUE
    ELSE a = b

\* impl PartialEq<ValueType> for StackValueType
StackValueType_eq_ValueType(a, other) ==
    IF is_any(a) \/ is_any_unlimited(a) THEN TRUE ELSE a = other

\* impl PartialEq<StackValueType> for ValueType
ValueType_eq_StackValueType(value_type, other) ==
    StackValueType_eq_ValueType(other, value_type)

ParentFrameMsg == "Trying to access parent frame stack values."
ExpectedValueMsg == "Expected value of type on top of stack."
ExpectedBlockReturnMsg == "Expected block to return while it has returned"
NonEmptyBodyMsg == "Non-empty function body expected"
MisplacedElseMsg == "Misplaced else instruction"
IfWithoutElseMsg == "If block without else required to have NoResult block type."
BrTableTypesMsg == "Labels in br_table points to block of different types"
ReturnFromExpressionMsg == "Trying to return from expression"
PanicTopmostBlock == "panic: at least 1 topmost block"

\* The limits FunctionValidationContext::new is given.
value_stack_limit == 3
frame_stack_limit == 3

\* The context the validator works on, with the Result of the last call:
\* err is OK or the Err, ret the value an Ok carries.
Ctx ==
    [position |-> position, value_stack |-> value_stack,
     frame_stack |-> frame_stack, labels |-> labels,
     return_type |-> return_type, debug |-> debug_assertions,
     err |-> OK, ret |-> NoValue]

Err(c, e) == [c EXCEPT !.err = e]
Ret(c, r) == [c EXCEPT !.ret = r]

push_value(c, value_type) ==
    IF c.err # OK THEN c
    ELSE LET r == StackWithLimit_push(c.value_stack, value_stack_limit, value_type)
         IN IF r.err # OK THEN Err(c, r.err)
            ELSE [c EXCEPT !.value_stack = r.values, !.ret = NoValue]

\* An access check that also lets through a stack at the frame's base.
check_stack_access_AtBase(c) ==
    IF c.err # OK THEN c
    ELSE LET t == StackWithLimit_top(c.frame_stack)
         IN IF t.err # OK THEN Err(c, PanicTopmostBlock)
            ELSE IF Len(c.value_stack) >= t.ret.value_stack_len THEN c
            ELSE Err(c, ParentFrameMsg)

check_stack_access(c) ==
    IF c.err # OK THEN c
    ELSE LET t == StackWithLimit_top(c.frame_stack)
         IN IF t.err # OK THEN Err(c, PanicTopmostBlock)
            ELSE IF Len(c.value_stack) > t.ret.value_stack_len THEN c
            ELSE Err(c, ParentFrameMsg)

\* The AnyUnlimited arm of pop_value, without the push that puts the marker back.
pop_value_marker_Consumed(c) == c

\* The AnyUnlimited arm of pop_value: the marker popped is pushed back.
pop_value_marker(c) == push_value(c, AnyUnlimited)

pop_value(c0, value_type) ==
    LET c == check_stack_access(c0)
    IN IF c.err # OK THEN c
       ELSE LET p == StackWithLimit_pop(c.value_stack)
                c1 == [c EXCEPT !.value_stack = p.values, !.ret = NoValue]
            IN IF p.err # OK THEN Err(c, p.err)
               ELSE CASE p.ret \in ValueTypes
                           /\ ValueType_eq_StackValueType(p.ret, value_type) -> c1
                      [] p.ret = StackValueType_Any -> c1
                      [] p.ret = AnyUnlimited -> pop_value_marker(c1)
                      [] OTHER -> Err(c1, ExpectedValueMsg)

tee_value(c0, value_type) ==
    LET c == check_stack_access(c0)
    IN IF c.err # OK THEN c
       ELSE LET t == StackWithLimit_top(c.value_stack)
            IN IF t.err # OK THEN Err(c, t.err)
               ELSE CASE t.ret \in ValueTypes
                           /\ ValueType_eq_StackValueType(t.ret, value_type) -> Ret(c, NoValue)
                      [] t.ret \in {StackValueType_Any, AnyUnlimited} -> Ret(c, NoValue)
                      [] OTHER -> Err(c, ExpectedValueMsg)

pop_any_value(c0) ==
    LET c == check_stack_access(c0)
    IN IF c.err # OK THEN c
       ELSE LET p == StackWithLimit_pop(c.value_stack)
                c1 == [c EXCEPT !.value_stack = p.values]
            IN IF p.err # OK THEN Err(c, p.err)
               ELSE CASE p.ret \in ValueTypes -> Ret(c1, Specific(p.ret))
                      [] p.ret = StackValueType_Any -> Ret(c1, StackValueType_Any)
                      [] p.ret = AnyUnlimited -> Ret(push_value(c1, AnyUnlimited), StackValueType_Any)

tee_any_value(c0) ==
    LET c == check_stack_access(c0)
    IN IF c.err # OK THEN c
       ELSE LET t == StackWithLimit_top(c.value_stack)
            IN IF t.err # OK THEN Err(c, t.err) ELSE Ret(c, t.ret)

\* An unreachable() that leaves the stack as it is.
unreachable_NoMarker(c) == c

unreachable(c) == push_value(c, AnyUnlimited)

top_label(c) ==
    IF c.err # OK THEN c
    ELSE LET t == StackWithLimit_top(c.frame_stack)
         IN IF t.err # OK THEN Err(c, t.err) ELSE Ret(c, t.ret)

BlockFrame(frame_type, block_type, pos, len) ==
    [frame_type |-> frame_type, block_type |-> block_type,
     begin_position |-> pos, branch_position |-> pos, end_position |-> pos,
     value_stack_len |-> len]

\* A push_label that records a base one above the operand stack.
push_label_BaseAbove(c, frame_type, block_type) ==
    IF c.err # OK THEN c
    ELSE LET r == StackWithLimit_push(c.frame_stack, frame_stack_limit,
                      BlockFrame(frame_type, block_type, c.position, Len(c.value_stack) + 1))
         IN IF r.err # OK THEN Err(c, r.err)
            ELSE [c EXCEPT !.frame_stack = r.values, !.ret = NoValue]

push_label(c, frame_type, block_type) ==
    IF c.err # OK THEN c
    ELSE LET r == StackWithLimit_push(c.frame_stack, frame_stack_limit,
                      BlockFrame(frame_type, block_type, c.position, Len(c.value_stack)))
         IN IF r.err # OK THEN Err(c, r.err)
            ELSE [c EXCEPT !.frame_stack = r.values, !.ret = NoValue]

\* A HashMap::insert that forgets the other entries.
HashMap_insert_Only(map, k, v) == (k :> v)

\* HashMap::insert: the new value replaces the one the key had.
HashMap_insert(map, k, v) == (k :> v) @@ map

pop_label(c) ==
    IF c.err # OK THEN c
    ELSE LET f == StackWithLimit_pop(c.frame_stack)
             frame == f.ret
         IN IF f.err # OK THEN Err(c, f.err)
            ELSE
            LET has == Len(c.value_stack) > frame.value_stack_len
                p == StackWithLimit_pop(c.value_stack)
                actual_value_type == IF has THEN p.ret ELSE NoValue
                popped == IF has THEN p.values ELSE c.value_stack
                r == StackWithLimit_resize(popped, frame.value_stack_len, StackValueType_Any, c.debug)
                c1 == [c EXCEPT !.frame_stack = f.values, !.value_stack = r.values,
                                !.ret = NoValue]
                matches ==
                    IF frame.block_type = NoResult
                    THEN IF has THEN is_any_unlimited(actual_value_type) ELSE TRUE
                    ELSE IF has
                         THEN StackValueType_eq_ValueType(actual_value_type, frame.block_type)
                         ELSE FALSE
                c2 == IF c1.frame_stack # <<>>
                      THEN [c1 EXCEPT !.labels =
                               HashMap_insert(@, frame.begin_position, c.position)]
                      ELSE c1
            IN IF has /\ p.err # OK THEN Err(c1, p.err)
               ELSE IF r.err # OK THEN Err(c1, r.err)
               ELSE IF ~matches THEN Err(c1, ExpectedBlockReturnMsg)
               ELSE IF frame.block_type # NoResult
                    THEN Ret(push_value(c2, Specific(frame.block_type)), ValidateNextInstruction)
                    ELSE Ret(c2, ValidateNextInstruction)

require_label(c, idx) ==
    IF c.err # OK THEN c
    ELSE LET g == StackWithLimit_get(c.frame_stack, idx)
         IN IF g.err # OK THEN Err(c, g.err) ELSE Ret(c, g.ret)

\* self.return_type.ok_or(..): the field is None when validating an expression.
context_return_type(c) ==
    IF c.err # OK THEN c
    ELSE IF c.return_type = NoValue THEN Err(c, ReturnFromExpressionMsg)
    ELSE Ret(c, c.return_type)

----------------------------------------------------------------------------
(* interpreter/validator.rs: the instructions.  An opcode is a record: op   *)
(* names the instruction (numeric instructions by their class), the other   *)
(* fields are its immediates.                                               *)

Outcome(c, outcome) == IF c.err # OK THEN c ELSE Ret(c, outcome)

validate_const(c, value_type) ==
    Outcome(push_value(c, value_type), ValidateNextInstruction)

validate_unop(c, value_type) ==
    Outcome(push_value(pop_value(c, value_type), value_type), ValidateNextInstruction)

validate_binop(c, value_type) ==
    Outcome(push_value(pop_value(pop_value(c, value_type), value_type), value_type),
            ValidateNextInstruction)

validate_testop(c, value_type) ==
    Outcome(push_value(pop_value(c, value_type), Specific("I32")),
            ValidateNextInstruction)

validate_relop(c, value_type) ==
    Outcome(push_value(pop_value(pop_value(c, value_type), value_type), Specific("I32")),
            ValidateNextInstruction)

validate_cvtop(c, value_type1, value_type2) ==
    Outcome(push_value(pop_value(c, value_type1), value_type2), ValidateNextInstruction)

validate_drop(c) == Outcome(pop_any_value(c), ValidateNextInstruction)

validate_select(c) ==
    LET c1 == pop_any_value(pop_value(c, Specific("I32")))
        select_type == c1.ret
    IN IF c1.err # OK THEN c1
       ELSE Outcome(push_value(pop_value(c1, select_type), select_type),
                    ValidateNextInstruction)

validate_block(c, block_type) ==
    Outcome(push_label(c, "Block", block_type), ValidateNextInstruction)

validate_loop(c, block_type) ==
    Outcome(push_label(c, "Loop", block_type), ValidateNextInstruction)

validate_if(c, block_type) ==
    Outcome(push_label(pop_value(c, Specific("I32")), "IfTrue", block_type),
            ValidateNextInstruction)

\* An Else that leaves the then-branch result on the stack.
validate_else_KeepsResult(c) ==
    LET t == top_label(c)
    IN IF t.err # OK THEN t
       ELSE IF t.ret.frame_type # "IfTrue" THEN Err(c, MisplacedElseMsg)
       ELSE Outcome(push_label(pop_label(c), "IfFalse", t.ret.block_type),
                    ValidateNextInstruction)

validate_else(c) ==
    LET t == top_label(c)
        block_type == t.ret.block_type
    IN IF t.err # OK THEN t
       ELSE IF t.ret.frame_type # "IfTrue" THEN Err(c, MisplacedElseMsg)
       ELSE LET c1 == pop_label(c)
                c2 == IF block_type # NoResult
                      THEN pop_value(c1, Specific(block_type))
                      ELSE c1
            IN Outcome(push_label(c2, "IfFalse", block_type), ValidateNextInstruction)

\* An End that closes an IfTrue frame like any other frame.
validate_end_AnyIf(c) ==
    LET t == top_label(c)
    IN IF t.err # OK THEN t
       ELSE Outcome(pop_label(c), ValidateNextInstruction)

validate_end(c) ==
    LET t == top_label(c)
    IN IF t.err # OK THEN t
       ELSE IF t.ret.frame_type = "IfTrue" /\ t.ret.block_type # NoResult
            THEN Err(c, IfWithoutElseMsg)
       ELSE Outcome(pop_label(c), ValidateNextInstruction)

\* The value a branch to the frame needs on top: none for a Loop or NoResult.
branch_value(c, frame) ==
    IF frame.frame_type # "Loop" /\ frame.block_type # NoResult
    THEN tee_value(c, Specific(frame.block_type))
    ELSE c

validate_br(c, idx) ==
    LET l == require_label(c, idx)
    IN IF l.err # OK THEN l
       ELSE Outcome(branch_value(c, l.ret), Unreachable)

validate_br_if(c, idx) ==
    LET c1 == pop_value(c, Specific("I32"))
        l == require_label(c1, idx)
    IN IF l.err # OK THEN l
       ELSE Outcome(branch_value(c1, l.ret), ValidateNextInstruction)

\* The loop over the table: required_block_type after label i and the rest.
RECURSIVE validate_br_table_labels(_, _, _, _)
validate_br_table_labels(c, table, i, required_block_type) ==
    IF i > Len(table) THEN [err |-> OK, required |-> required_block_type]
    ELSE LET l == require_label(c, table[i])
         IN IF l.err # OK THEN [err |-> l.err, required |-> required_block_type]
            ELSE IF l.ret.frame_type # "Loop"
                 THEN IF required_block_type # NoValue
                         /\ required_block_type # l.ret.block_type
                      THEN [err |-> BrTableTypesMsg, required |-> required_block_type]
                      ELSE validate_br_table_labels(c, table, i + 1, l.ret.block_type)
                 ELSE validate_br_table_labels(c, table, i + 1, required_block_type)

validate_br_table(c, table, default) ==
    LET d == require_label(c, default)
    IN IF d.err # OK THEN d
       ELSE LET r == validate_br_table_labels(c, table, 1,
                         IF d.ret.frame_type # "Loop" THEN d.ret.block_type ELSE NoValue)
                c1 == pop_value(c, Specific("I32"))
            IN IF r.err # OK THEN Err(c, r.err)
               ELSE IF r.required # NoValue /\ r.required # NoResult
                    THEN Outcome(tee_value(c1, Specific(r.required)), Unreachable)
                    ELSE Outcome(c1, Unreachable)

validate_return(c) ==
    LET t == context_return_type(c)
    IN IF t.err # OK THEN t
       ELSE IF t.ret # NoResult THEN Outcome(tee_value(c, Specific(t.ret)), Unreachable)
       ELSE Outcome(c, Unreachable)

\* The module instance the function is validated in: its globals, with the
\* type and mutability they were declared with.
module_globals ==
    <<[variable_type |-> "I32", is_mutable |-> FALSE],
      [variable_type |-> "I64", is_mutable |-> TRUE],
      [variable_type |-> "I32", is_mutable |-> TRUE]>>

NoGlobalMsg == "Global at index doesn't exists"
ExpectedMutableMsg == "Expected global to be mutable"
ExpectedImmutableMsg == "Expected global to be immutable"
AnyFuncGlobalMsg == "Expected global to have non-AnyFunc type"
UpdateGlobalMsg == "Trying to update global of type with value of type"

\* ModuleInstance::global (interpreter/module.rs): the global of the index
\* space at idx, or an error when the module has no such global.
ModuleInstance_global(idx) ==
    IF idx < Len(module_globals) THEN [err |-> OK, ret |-> module_globals[idx + 1]]
    ELSE [err |-> NoGlobalMsg, ret |-> NoValue]

\* A mutability check that lets every global through.
check_mutability_Any(mutability, g) == OK

\* The first two arms of the match in require_global: mutability is None
\* (NoValue), Some(true) or Some(false).
check_mutability(mutability, g) ==
    IF mutability = "Some(true)" /\ ~g.is_mutable THEN ExpectedMutableMsg
    ELSE IF mutability = "Some(false)" /\ g.is_mutable THEN ExpectedImmutableMsg
    ELSE OK

require_global(c, idx, mutability) ==
    IF c.err # OK THEN c
    ELSE LET g == ModuleInstance_global(idx)
         IN IF g.err # OK THEN Err(c, g.err)
            ELSE IF check_mutability(mutability, g.ret) # OK
                 THEN Err(c, check_mutability(mutability, g.ret))
            ELSE IF g.ret.variable_type = "AnyFunc" THEN Err(c, AnyFuncGlobalMsg)
            ELSE Ret(c, Specific(g.ret.variable_type))

validate_get_global(c, index) ==
    LET g == require_global(c, index, NoValue)
    IN IF g.err # OK THEN g
       ELSE Outcome(push_value(g, g.ret), ValidateNextInstruction)

validate_set_global(c, index) ==
    LET g == require_global(c, index, "Some(true)")
        v == pop_any_value(g)
    IN IF v.err # OK THEN v
       ELSE IF ~StackValueType_eq(g.ret, v.ret) THEN Err(v, UpdateGlobalMsg)
       ELSE Outcome(v, ValidateNextInstruction)

\* The memories of the module instance the function is validated in.
module_memories == <<"memory">>

DEFAULT_MEMORY_INDEX == 0
NoMemoryMsg == "Memory at index doesn't exists"
AlignmentMsg == "Too large memory alignment (expected at most)"

\* Constant to skip alignment validation: 0xFFFFFFFF.
NATURAL_ALIGNMENT == AllOnes(32)

\* u32 values are sets of the positions of their 1 bits.
U32Gt(a, b) == \E i \in a \ b : \A j \in (i + 1)..31 : (j \in a) <=> (j \in b)

\* A shift whose amount is taken modulo the width.
checked_shl_Wrapping(x, rhs) ==
    [is_some |-> TRUE, val |-> Shl(x, U32ToUSize(rhs \cap (0..4)), 32)]

\* u32::checked_shl: None when the amount is 32 or more.
checked_shl(x, rhs) ==
    IF rhs \subseteq 0..4 THEN [is_some |-> TRUE, val |-> Shl(x, U32ToUSize(rhs), 32)]
    ELSE [is_some |-> FALSE, val |-> {}]

unwrap_or(option, default) == IF option.is_some THEN option.val ELSE default

\* The alignment check of validate_load and validate_store: TRUE when the
\* hint is rejected.
too_large_alignment(align, max_align) ==
    /\ align # NATURAL_ALIGNMENT
    /\ U32Gt(unwrap_or(checked_shl({0}, align), AllOnes(32)), USizeToU32(max_align))

\* ModuleInstance::memory (interpreter/module.rs): Ok when the module has a
\* memory at idx of the index space.
ModuleInstance_memory(idx) == IF idx < Len(module_memories) THEN OK ELSE NoMemoryMsg

require_memory(c, idx) ==
    IF c.err # OK THEN c
    ELSE IF ModuleInstance_memory(idx) # OK THEN Err(c, ModuleInstance_memory(idx))
    ELSE c

validate_load(c, align, max_align, value_type) ==
    IF c.err # OK THEN c
    ELSE IF too_large_alignment(align, max_align) THEN Err(c, AlignmentMsg)
    ELSE LET c1 == pop_value(c, Specific("I32"))
             c2 == require_memory(c1, DEFAULT_MEMORY_INDEX)
             c3 == push_value(c2, value_type)
         IN Outcome(c3, ValidateNextInstruction)

validate_store(c, align, max_align, value_type) ==
    IF c.err # OK THEN c
    ELSE IF too_large_alignment(align, max_align) THEN Err(c, AlignmentMsg)
    ELSE LET c1 == require_memory(c, DEFAULT_MEMORY_INDEX)
             c2 == pop_value(c1, value_type)
             c3 == pop_value(c2, Specific("I32"))
         IN Outcome(c3, ValidateNextInstruction)

\* The functions of the module instance: parameter types and return type.
module_functions ==
    <<[params |-> <<>>, return_type |-> "I64"],
      [params |-> <<"I32", "I64">>, return_type |-> "I32"],
      [params |-> <<"I64">>, return_type |-> NoValue]>>

NoFunctionMsg == "Function at index doesn't exists"

\* ModuleInstance::function_type (interpreter/module.rs): the signature of
\* the function at idx of the index space, or an error.
ModuleInstance_function_type(idx) ==
    IF idx < Len(module_functions) THEN [err |-> OK, ret |-> module_functions[idx + 1]]
    ELSE [err |-> NoFunctionMsg, ret |-> NoValue]

require_function(c, idx) ==
    IF c.err # OK THEN c
    ELSE LET ft == ModuleInstance_function_type(idx)
         IN IF ft.err # OK THEN Err(c, ft.err)
            ELSE Ret(c, [params |-> ft.ret.params,
                         return_type |-> IF ft.ret.return_type = NoValue THEN NoResult
                                         ELSE Value(ft.ret.return_type)])

\* Arguments popped first parameter first.
RECURSIVE pop_arguments_Forward(_, _)
pop_arguments_Forward(c, argument_types) ==
    IF c.err # OK \/ argument_types = <<>> THEN c
    ELSE pop_arguments_Forward(pop_value(c, Specific(Head(argument_types))),
                               Tail(argument_types))

\* for argument_type in argument_types.iter().rev() { pop_value(..)? }
RECURSIVE pop_arguments(_, _)
pop_arguments(c, argument_types) ==
    IF c.err # OK \/ argument_types = <<>> THEN c
    ELSE pop_arguments(pop_value(c, Specific(argument_types[Len(argument_types)])),
                       SubSeq(argument_types, 1, Len(argument_types) - 1))

validate_call(c, idx) ==
    LET f == require_function(c, idx)
        c1 == pop_arguments(f, f.ret.params)
        c2 == IF f.ret.return_type # NoResult
              THEN push_value(c1, Specific(f.ret.return_type)) ELSE c1
    IN IF f.err # OK THEN f
       ELSE Outcome(c2, ValidateNextInstruction)

validate_instruction(c, o) ==
    CASE o.op = "Unreachable" -> Ret(c, Unreachable)
      [] o.op = "Nop" -> Ret(c, ValidateNextInstruction)
      [] o.op = "Block" -> validate_block(c, o.block_type)
      [] o.op = "Loop" -> validate_loop(c, o.block_type)
      [] o.op = "If" -> validate_if(c, o.block_type)
      [] o.op = "Else" -> validate_else(c)
      [] o.op = "End" -> validate_end(c)
      [] o.op = "Br" -> validate_br(c, o.idx)
      [] o.op = "BrIf" -> validate_br_if(c, o.idx)
      [] o.op = "BrTable" -> validate_br_table(c, o.table, o.default)
      [] o.op = "Return" -> validate_return(c)
      [] o.op = "Drop" -> validate_drop(c)
      [] o.op = "Call" -> validate_call(c, o.index)
      [] o.op = "Select" -> validate_select(c)
      [] o.op = "GetGlobal" -> validate_get_global(c, o.index)
      [] o.op = "SetGlobal" -> validate_set_global(c, o.index)
      [] o.op = "I32Load" -> validate_load(c, o.align, 4, Specific("I32"))
      [] o.op = "I64Load16U" -> validate_load(c, o.align, 2, Specific("I64"))
      [] o.op = "I64Store" -> validate_store(c, o.align, 8, Specific("I64"))
      [] o.op = "I32Store8" -> validate_store(c, o.align, 1, Specific("I32"))
      [] o.op = "Const" -> validate_const(c, Specific(o.value_type))
      [] o.op = "Unop" -> validate_unop(c, Specific(o.value_type))
      [] o.op = "Binop" -> validate_binop(c, Specific(o.value_type))
      [] o.op = "Testop" -> validate_testop(c, Specific(o.value_type))
      [] o.op = "Relop" -> validate_relop(c, Specific(o.value_type))
      [] o.op = "Cvtop" -> validate_cvtop(c, Specific(o.value_type1), Specific(o.value_type2))

----------------------------------------------------------------------------
(* validate_function as a state machine: one step for each instruction and  *)
(* one for each frame the final loop closes.  The body is an input: the     *)
(* opcode at a position is any opcode, chosen when the loop reaches it.     *)

MaxBody == 4
MaxLabel == 2

BlockTypes == {NoResult, Value("I32"), Value("I64")}

Opcodes ==
    {[op |-> o] : o \in {"Unreachable", "Nop", "Else", "End", "Return", "Drop", "Select"}}
    \cup {[op |-> o, block_type |-> b] : o \in {"Block", "Loop", "If"}, b \in BlockTypes}
    \cup {[op |-> o, idx |-> i] : o \in {"Br", "BrIf"}, i \in 0..MaxLabel}
    \cup {[op |-> "BrTable", table |-> t, default |-> d] :
             t \in {<<>>, <<0>>, <<1>>}, d \in 0..1}
    \cup {[op |-> "Const", value_type |-> t] : t \in {"I32", "I64"}}
    \cup {[op |-> "Binop", value_type |-> "I32"], [op |-> "Testop", value_type |-> "I64"],
          [op |-> "Unop", value_type |-> "I64"], [op |-> "Relop", value_type |-> "I64"],
          [op |-> "Cvtop", value_type1 |-> "I32", value_type2 |-> "I64"]}

\* FunctionValidationContext::new, for a body and a signature.
InitValidator ==
    /\ CodecIdle
    /\ ProgramIdle
    /\ NativeIdle
    /\ StackIdle
    /\ debug_assertions \in BOOLEAN
    /\ body_len \in 0..MaxBody
    /\ return_type \in BlockTypes
    /\ opcode = [op |-> "none"]
    /\ position = 0
    /\ value_stack = <<>>
    /\ frame_stack = <<>>
    /\ labels = <<>>
    /\ vstate = "new"
    /\ error = OK

\* The context after a call, and where validate_function is then.
Continue(c, next_position, next_vstate) ==
    /\ value_stack' = c.value_stack
    /\ frame_stack' = c.frame_stack
    /\ labels' = c.labels
    /\ IF c.err = OK
       THEN position' = next_position /\ vstate' = next_vstate /\ error' = OK
       ELSE /\ position' = position
            /\ vstate' = IF c.err \in {Panic, PanicTopmostBlock} THEN "panic" ELSE "error"
            /\ error' = c.err

\* A validate_function_block that enters its loop whatever the body is.
validate_function_block_AnyBody(c, len) == c

\* validate_function_block before its loop: an empty body is refused.
validate_function_block_entry(c, len) ==
    IF c.err = OK /\ len = 0 THEN Err(c, NonEmptyBodyMsg) ELSE c

\* validate_function up to the loop of validate_function_block.
ValidateFunction ==
    /\ vstate = "new"
    /\ LET c == push_label(Ctx, "Function", return_type)
       IN Continue(validate_function_block_entry(c, body_len), position, "running")
    /\ UNCHANGED <<body_len, opcode, return_type>>
    /\ UNCHANGED <<codec_vars, program_vars, native_vars, stack_vars>>

\* One iteration of the loop of validate_function_block, over a body whose
\* opcodes are among ops.
ValidateInstructionOf(ops) ==
    /\ vstate = "running"
    /\ \E o \in ops :
          /\ opcode' = o
          /\ LET c1 == validate_instruction(Ctx, o)
                 c2 == IF c1.err = OK /\ c1.ret = Unreachable THEN unreachable(c1) ELSE c1
             IN Continue(c2, position + 1,
                         IF position + 1 >= body_len THEN "closing" ELSE "running")
    /\ UNCHANGED <<body_len, return_type>>
    /\ UNCHANGED <<codec_vars, program_vars, native_vars, stack_vars>>

\* The loop over a body of control, parametric and numeric instructions.
ValidateInstruction == ValidateInstructionOf(Opcodes)

\* One iteration of the loop of validate_function that closes open frames.
PopRemainingLabel ==
    /\ vstate = "closing"
    /\ frame_stack # <<>>
    /\ Continue(pop_label(Ctx), position, "closing")
    /\ UNCHANGED <<body_len, opcode, return_type>>
    /\ UNCHANGED <<codec_vars, program_vars, native_vars, stack_vars>>

\* The loop finds no frame left: Ok(()).
ValidateFunctionOk ==
    /\ vstate = "closing"
    /\ frame_stack = <<>>
    /\ vstate' = "ok"
    /\ UNCHANGED <<body_len, opcode, return_type, position, value_stack, frame_stack,
                   labels, error>>
    /\ UNCHANGED <<codec_vars, program_vars, native_vars, stack_vars>>

NextValidator ==
    ValidateFunction \/ ValidateInstruction \/ PopRemainingLabel \/ ValidateFunctionOk

SpecValidator == InitValidator /\ [][NextValidator]_vars

\* Bodies of the instructions whose validation looks into the module
\* instance, with the few plain instructions needed to feed them operands.
MaxGlobal == 3
PlainOpcodes ==
    {[op |-> "Unreachable"], [op |-> "Drop"], [op |-> "End"],
     [op |-> "Block", block_type |-> NoResult],
     [op |-> "Const", value_type |-> "I32"],
     [op |-> "Const", value_type |-> "I64"]}
GlobalOpcodes == {[op |-> o, index |-> i] : o \in {"GetGlobal", "SetGlobal"}, i \in 0..MaxGlobal}
\* Alignment hints: the small ones, those around the width of a u32, and
\* those at the top of the range with the sentinel.
MaxAlign == 4
MemoryAligns ==
    {USizeToU32(a) : a \in 0..MaxAlign} \cup {USizeToU32(a) : a \in 31..33}
    \cup {AllOnes(32) \ {0}, AllOnes(32)}
Loads == {"I32Load", "I64Load16U"}
Stores == {"I32Store8", "I64Store"}
MemoryOpcodes == {[op |-> o, align |-> a] : o \in Loads \cup Stores, a \in MemoryAligns}
MaxFunction == 3
CallOpcodes == {[op |-> "Call", index |-> i] : i \in 0..MaxFunction}
ModuleOpcodes == PlainOpcodes \cup GlobalOpcodes \cup MemoryOpcodes \cup CallOpcodes

ValidateModuleInstruction == ValidateInstructionOf(ModuleOpcodes)

NextValidatorModule ==
    ValidateFunction \/ ValidateModuleInstruction \/ PopRemainingLabel \/ ValidateFunctionOk

SpecValidatorModule == InitValidator /\ [][NextValidatorModule]_vars

----------------------------------------------------------------------------
(* Properties of the validator.  A step taken with vstate = "running"       *)
(* validates the opcode opcode'; it succeeded when the validator goes on.   *)

Validates(ops) == vstate = "running" /\ opcode'.op \in ops
Succeeded == vstate' \in {"running", "closing"}
TopFrame == frame_stack[Len(frame_stack)]
AboveBase(values, frame) == SubSeq(values, frame.value_stack_len + 1, Len(values))
Base(values, frame) == SubSeq(values, 1, frame.value_stack_len)
ResultOf(block_type) == IF block_type = NoResult THEN <<>> ELSE <<Specific(block_type)>>

\* The operands above the base are what the block type asks for: none, or
\* one compatible value, or they hold the AnyUnlimited marker.
MatchesExactly(block_type, above) ==
    \/ block_type = NoResult /\ above = <<>>
    \/ /\ block_type # NoResult
       /\ Len(above) = 1
       /\ StackValueType_eq_ValueType(above[1], block_type)
    \/ \E i \in 1..Len(above) : above[i] = AnyUnlimited

\* C6: a frame closure (End, Else, or the closing loop of validate_function)
\* succeeds only if the operands above the frame's value_stack_len match the
\* block type exactly, or are polymorphic; after an End or a closing-loop
\* closure the stack is the frame's base followed by the result type.
C6_ClosureMatchesExactly ==
    [][ /\ ((Validates({"End", "Else"}) \/ vstate = "closing") /\ Succeeded
              /\ frame_stack # <<>>) =>
               MatchesExactly(TopFrame.block_type, AboveBase(value_stack, TopFrame))
        /\ ((Validates({"End"}) \/ vstate = "closing") /\ Succeeded
              /\ frame_stack # <<>>) =>
               value_stack' = Base(value_stack, TopFrame) \o ResultOf(TopFrame.block_type)
      ]_vars

\* C7 as stated: after Unreachable, Br, BrTable or Return is validated the
\* operands of the current frame are the AnyUnlimited marker alone.
C7_StackIsSingleMarker ==
    [][ (Validates({"Unreachable", "Br", "BrTable", "Return"}) /\ Succeeded) =>
            AboveBase(value_stack', TopFrame) = <<AnyUnlimited>>
      ]_vars

\* The operands BrTable leaves: its I32 index is popped, the marker is not.
AfterIndex(values) ==
    IF values[Len(values)] = AnyUnlimited THEN values
    ELSE SubSeq(values, 1, Len(values) - 1)

\* C7, amended: when Unreachable, Br, BrTable or Return is validated, an
\* AnyUnlimited marker is pushed on top of the operand stack; the operands
\* pushed before (but the index BrTable pops) stay below it, the frames are
\* as they were, and Unreachable fails exactly when the stack is at its limit.
C7_MarkerPushedOnTop ==
    [][ /\ (Validates({"Unreachable", "Br", "Return"}) /\ Succeeded) =>
               /\ value_stack' = Append(value_stack, AnyUnlimited)
               /\ frame_stack' = frame_stack
        /\ (Validates({"BrTable"}) /\ Succeeded) =>
               /\ value_stack # <<>>
               /\ value_stack' = Append(AfterIndex(value_stack), AnyUnlimited)
               /\ frame_stack' = frame_stack
        /\ Validates({"Unreachable"}) =>
               (Succeeded <=> Len(value_stack) < value_stack_limit)
      ]_vars

\* Unreachable was validated over an I32 operand, which is still below the marker.
C7_Witness ==
    /\ vstate = "running"
    /\ opcode.op = "Unreachable"
    /\ Len(value_stack) >= 2
    /\ value_stack[Len(value_stack)] = AnyUnlimited
    /\ value_stack[Len(value_stack) - 1] = Specific("I32")
    /\ Len(value_stack) - 1 > TopFrame.value_stack_len

StackTypes == ValueTypes \cup {StackValueType_Any, AnyUnlimited}

\* C8: no step but one that closes a frame (End, Else, the closing loop)
\* removes an AnyUnlimited marker from the operand stack, and when the marker
\* is the operand on top, pop_value, pop_any_value, tee_value and
\* tee_any_value succeed and leave the stack as it is.
C8_MarkerStays ==
    [][ /\ ~(Validates({"End", "Else"}) \/ vstate = "closing") =>
               \A i \in 1..Len(value_stack) :
                   value_stack[i] = AnyUnlimited =>
                       (i <= Len(value_stack') /\ value_stack'[i] = AnyUnlimited)
        /\ (/\ vstate = "running"
            /\ frame_stack # <<>>
            /\ Len(value_stack) > TopFrame.value_stack_len
            /\ value_stack[Len(value_stack)] = AnyUnlimited) =>
               /\ \A t \in StackTypes :
                      LET popped == pop_value(Ctx, t)
                          peeked == tee_value(Ctx, t)
                      IN /\ popped.err = OK
                         /\ popped.value_stack = value_stack
                         /\ peeked.err = OK
                         /\ peeked.value_stack = value_stack
               /\ LET popped == pop_any_value(Ctx)
                      peeked == tee_any_value(Ctx)
                  IN /\ popped.err = OK
                     /\ popped.ret = StackValueType_Any
                     /\ popped.value_stack = value_stack
                     /\ peeked.err = OK
                     /\ peeked.ret = AnyUnlimited
                     /\ peeked.value_stack = value_stack
      ]_vars

\* A Binop popped twice from a stack that holds the marker and its own
\* result: the marker is still there under the result.
C8_Witness ==
    /\ vstate = "running"
    /\ opcode.op = "Binop"
    /\ value_stack = <<AnyUnlimited, Specific("I32")>>

AtBase == frame_stack # <<>> /\ Len(value_stack) = TopFrame.value_stack_len

\* C9: with no operand above the innermost frame's value_stack_len,
\* pop_value, tee_value, pop_any_value and tee_any_value fail with 'Trying to
\* access parent frame stack values.' and leave the stack as it is, and so
\* does every instruction that begins by popping or peeking an operand.
C9_ParentFrameAccessFails ==
    [][ /\ (vstate = "running" /\ AtBase) =>
               /\ \A t \in StackTypes :
                      LET popped == pop_value(Ctx, t)
                          peeked == tee_value(Ctx, t)
                      IN /\ popped.err = ParentFrameMsg
                         /\ popped.value_stack = value_stack
                         /\ peeked.err = ParentFrameMsg
                         /\ peeked.value_stack = value_stack
               /\ LET popped == pop_any_value(Ctx)
                      peeked == tee_any_value(Ctx)
                  IN /\ popped.err = ParentFrameMsg
                     /\ popped.value_stack = value_stack
                     /\ peeked.err = ParentFrameMsg
                     /\ peeked.value_stack = value_stack
        /\ (/\ AtBase
            /\ \/ Validates({"Drop", "Select", "If", "BrIf", "Unop", "Binop",
                             "Testop", "Relop", "Cvtop"})
               \/ Validates({"Return"}) /\ return_type # NoResult) =>
               /\ vstate' = "error"
               /\ error' = ParentFrameMsg
               /\ value_stack' = value_stack
               /\ frame_stack' = frame_stack
      ]_vars

\* An instruction failed at the base of an inner frame while the enclosing
\* frame's operands were on the stack, where they still are.
C9_Witness ==
    /\ vstate = "error"
    /\ error = ParentFrameMsg
    /\ Len(frame_stack) >= 2
    /\ value_stack # <<>>
    /\ Len(value_stack) = TopFrame.value_stack_len
    /\ opcode.op = "Drop"

\* The operands BrIf leaves: its I32 condition is popped, the marker is not.
AfterCondition(o, values) == IF o.op = "BrIf" THEN AfterIndex(values) ELSE values

\* C10: Br(n) and BrIf(n) fail when n is not less than the frame depth, and
\* target the n-th frame from the innermost; BrIf needs an I32-compatible
\* condition in the current frame and removes only it; a target that is not
\* a Loop and has block type Value(t) needs a t-compatible operand of the
\* current frame on top, which stays; any other target needs no operand.
C10_BranchTarget ==
    [][ Validates({"Br", "BrIf"}) =>
            LET n == opcode'.idx
                depth == Len(frame_stack)
                target == frame_stack[depth - n]
                needs == target.frame_type # "Loop" /\ target.block_type # NoResult
                condition == /\ Len(value_stack) > TopFrame.value_stack_len
                             /\ StackValueType_eq_ValueType(value_stack[Len(value_stack)],
                                                            "I32")
                rest == AfterCondition(opcode', value_stack)
            IN /\ n >= depth => ~Succeeded
               /\ (Succeeded /\ opcode'.op = "BrIf") => condition
               /\ (Succeeded /\ needs) =>
                      /\ Len(rest) > TopFrame.value_stack_len
                      /\ StackValueType_eq_ValueType(rest[Len(rest)], target.block_type)
               /\ Succeeded =>
                      /\ frame_stack' = frame_stack
                      /\ value_stack' = IF opcode'.op = "Br"
                                        THEN Append(rest, AnyUnlimited) ELSE rest
               /\ (n < depth /\ ~needs /\ opcode'.op = "BrIf" /\ condition) => Succeeded
               /\ (n < depth /\ ~needs /\ opcode'.op = "Br") =>
                      (Succeeded \/ error' = StackLimitMsg)
      ]_vars

\* BrIf(1) was validated in a block inside a function that returns I32: the
\* condition is gone and the I32 for the function frame is still on top.
C10_Witness ==
    /\ vstate \in {"running", "closing"}
    /\ opcode = [op |-> "BrIf", idx |-> 1]
    /\ Len(frame_stack) = 2
    /\ frame_stack[1].block_type = Value("I32")
    /\ frame_stack[2].block_type = NoResult
    /\ value_stack = <<Specific("I32")>>
    /\ frame_stack[2].value_stack_len = 0

\* The frames a BrTable names: its default label and the labels of its table.
BrTableLabels(o) == {o.default} \cup {o.table[i] : i \in 1..Len(o.table)}
FrameAt(idx) == frame_stack[Len(frame_stack) - idx]

\* C11: a BrTable is validated successfully only if the frames it targets
\* (the default and the table's labels) share a block type: when two of them
\* have different block types, its validation fails.
C11_BrTableSameBlockType ==
    [][ (/\ Validates({"BrTable"})
         /\ \A l \in BrTableLabels(opcode') : l < Len(frame_stack)
         /\ \E l1, l2 \in BrTableLabels(opcode') :
                FrameAt(l1).block_type # FrameAt(l2).block_type) =>
            ~Succeeded
      ]_vars

\* The operand on top of the frame's own operands is what closing the frame
\* asks for: pop_label looks at no other operand.
TopMatches(block_type, above) ==
    IF block_type = NoResult
    THEN above = <<>> \/ above[Len(above)] = AnyUnlimited
    ELSE above # <<>> /\ StackValueType_eq_ValueType(above[Len(above)], block_type)

C13_EndOfIfWithoutElse ==
    [][ (Validates({"End"}) /\ frame_stack # <<>> /\ TopFrame.frame_type = "IfTrue") =>
          /\ Succeeded => TopFrame.block_type = NoResult
          /\ TopFrame.block_type # NoResult =>
                 /\ vstate' = "error" /\ error' = IfWithoutElseMsg
                 /\ value_stack' = value_stack /\ frame_stack' = frame_stack
      ]_vars

\* An End was refused over an IfTrue frame of type I32 although the I32 a
\* closure would ask for was on top.
C13_Witness ==
    /\ vstate = "error"
    /\ error = IfWithoutElseMsg
    /\ opcode.op = "End"
    /\ TopFrame.frame_type = "IfTrue"
    /\ TopFrame.block_type = Value("I32")
    /\ value_stack # <<>>
    /\ Len(value_stack) = TopFrame.value_stack_len + 1
    /\ value_stack[Len(value_stack)] = Specific("I32")

\* C14: validate_function on an empty body returns the error 'Non-empty
\* function body expected': the validator is before its first step or has
\* returned that error, no opcode was fetched, and the position is 0.
C14_EmptyBodyRejected ==
    (vstate # "idle" /\ body_len = 0) =>
        /\ vstate = "new" \/ (vstate = "error" /\ error = NonEmptyBodyMsg)
        /\ opcode = [op |-> "none"]
        /\ position = 0

\* validate_function has returned the error for an empty body.
C14_Witness ==
    /\ body_len = 0
    /\ vstate = "error"
    /\ error = NonEmptyBodyMsg
    /\ opcode = [op |-> "none"]
GlobalAt(i) == module_globals[i + 1]
HasGlobal(i) == i < Len(module_globals)
OperandInFrame == frame_stack # <<>> /\ Len(value_stack) > TopFrame.value_stack_len

\* C15: SetGlobal(i) fails with 'Expected global to be mutable' when global i
\* is immutable, and for a mutable global succeeds exactly when the operand on
\* top of the current frame is compatible with the declared type, which it
\* pops; GetGlobal(i) pushes the declared type of global i, mutable or not,
\* and fails only when the stack is at its limit; both fail when the module
\* has no global i.
C15_GlobalAccess ==
    [][ /\ Validates({"SetGlobal"}) =>
               LET i == opcode'.index
               IN /\ ~HasGlobal(i) => (vstate' = "error" /\ error' = NoGlobalMsg)
                  /\ (HasGlobal(i) /\ ~GlobalAt(i).is_mutable) =>
                         /\ vstate' = "error"
                         /\ error' = ExpectedMutableMsg
                         /\ value_stack' = value_stack
                  /\ (HasGlobal(i) /\ GlobalAt(i).is_mutable /\ frame_stack # <<>>) =>
                         /\ Succeeded <=>
                                /\ OperandInFrame
                                /\ StackValueType_eq_ValueType(value_stack[Len(value_stack)],
                                                               GlobalAt(i).variable_type)
                         /\ Succeeded => value_stack' = AfterIndex(value_stack)
                  /\ Succeeded => frame_stack # <<>>
        /\ Validates({"GetGlobal"}) =>
               LET i == opcode'.index
               IN /\ ~HasGlobal(i) => (vstate' = "error" /\ error' = NoGlobalMsg)
                  /\ HasGlobal(i) =>
                         IF Len(value_stack) < value_stack_limit
                         THEN /\ Succeeded
                              /\ value_stack' = Append(value_stack, Specific(GlobalAt(i).variable_type))
                         ELSE vstate' = "error" /\ error' = StackLimitMsg ]_vars

C15_Witness ==
    /\ vstate \in {"running", "closing"}
    /\ opcode = [op |-> "SetGlobal", index |-> 1]
    /\ position = 3
    /\ value_stack = <<Specific("I32")>>
\* The width in bytes of the access of a load or store.
WidthOf(op) ==
    CASE op = "I32Store8" -> 1
      [] op = "I64Load16U" -> 2
      [] op = "I32Load" -> 4
      [] op = "I64Store" -> 8

\* The hints a with 2^a at most width, and the sentinel 0xFFFFFFFF.
GoodAligns(width) ==
    {USizeToU32(a) : a \in {x \in 0..3 : 2 ^ x <= width}} \cup {AllOnes(32)}

\* C16: a load or store with a hint that is neither 0xFFFFFFFF nor an a with
\* 2^a at most the width of the access fails with 'Too large memory
\* alignment' and leaves the stack as it is; with any other hint it is
\* validated as with hint 0, and succeeds when its operands are in the frame.
C16_AlignmentHint ==
    [][ Validates(Loads \cup Stores) =>
            LET o == opcode'
                zero == validate_instruction(Ctx, [o EXCEPT !.align = {}])
            IN IF o.align \in GoodAligns(WidthOf(o.op))
               THEN /\ ~(vstate' = "error" /\ error' = AlignmentMsg)
                    /\ Succeeded <=> zero.err = OK
                    /\ Succeeded => value_stack' = zero.value_stack
               ELSE /\ vstate' = "error"
                    /\ error' = AlignmentMsg
                    /\ value_stack' = value_stack ]_vars

C16_Witness ==
    /\ vstate \in {"running", "closing"}
    /\ opcode = [op |-> "I64Store", align |-> AllOnes(32)]
    /\ value_stack = <<Specific("I64")>>
FunctionAt(i) == module_functions[i + 1]
HasFunction(i) == i < Len(module_functions)
ResultCount(f) == IF f.return_type = NoValue THEN 0 ELSE 1
ResultTypes(f) == IF f.return_type = NoValue THEN <<>> ELSE <<Specific(f.return_type)>>
InFrame == SubSeq(value_stack, TopFrame.value_stack_len + 1, Len(value_stack))
\* The operands of the current frame above its topmost AnyUnlimited marker.
AboveMarker ==
    LET markers == {i \in 1..Len(InFrame) : InFrame[i] = AnyUnlimited}
    IN IF markers = {} THEN Len(InFrame)
       ELSE Len(InFrame) - CHOOSE i \in markers : \A j \in markers : j <= i
Min(a, b) == IF a <= b THEN a ELSE b

\* C17 as stated: a Call that is validated successfully changes the height
\* of the operand stack by the result count minus the parameter count.
C17_CallNetChange ==
    [][ (Validates({"Call"}) /\ Succeeded) =>
            Len(value_stack') = Len(value_stack) - Len(FunctionAt(opcode'.index).params)
                                + ResultCount(FunctionAt(opcode'.index)) ]_vars

\* C17, amended: Call(i) fails when the module has no function i; otherwise
\* it pops the parameter types last parameter first, each from the current
\* frame and compatible with the operand met, stopping without popping at an
\* AnyUnlimited marker, which matches every parameter left; then it pushes
\* the result type if any.  It succeeds exactly when every operand met is
\* compatible, the frame or a marker supplies every parameter, and the result
\* fits the stack; the height changes by results minus parameters when no
\* marker is met, and by results minus the operands above the marker else.
C17_CallPopsInReverse ==
    [][ (Validates({"Call"}) /\ frame_stack # <<>>) =>
            LET i == opcode'.index
                f == FunctionAt(i)
                n == Len(f.params)
                k == Min(n, AboveMarker)
                fits == Len(value_stack) - k + ResultCount(f) <= value_stack_limit
                met == \A j \in 1..k :
                           StackValueType_eq_ValueType(value_stack[Len(value_stack) - k + j],
                                                       f.params[n - k + j])
            IN IF ~HasFunction(i) THEN vstate' = "error" /\ error' = NoFunctionMsg
               ELSE /\ Succeeded <=> (met /\ fits /\ (k = n \/ AboveMarker < Len(InFrame)))
                    /\ Succeeded =>
                           value_stack' = SubSeq(value_stack, 1, Len(value_stack) - k)
                                          \o ResultTypes(f)
                    /\ (Succeeded /\ AboveMarker >= n) =>
                           Len(value_stack') = Len(value_stack) - n + ResultCount(f)
                    /\ ~met => (vstate' = "error" /\ error' = ExpectedValueMsg) ]_vars

C17_Witness ==
    /\ vstate \in {"running", "closing"}
    /\ opcode = [op |-> "Call", index |-> 1]
    /\ position = 3
    /\ value_stack = <<Specific("I32")>>
\* C18: when validate_function succeeds, every entry b -> e of the label map
\* leads from the position b of an opcode that opens a frame to the position
\* e of the opcode that closes it, so that b < e and e is a position of the
\* body (e < body length).
C18_LabelMapWithinBody ==
    vstate = "ok" => \A b \in DOMAIN labels : b < labels[b] /\ labels[b] < body_len
-----------------------------------------------------------------------------
(* The program registry (interpreter/program.rs): threads that share one    *)
(* ProgramInstance call add_module, insert_loaded_module and module.  The   *)
(* guard of a write() or read() is a temporary that is dropped at the end   *)
(* of the statement that took it.                                            *)

Threads == {"t1", "t2", "t3"}
ModuleNames == {"env", "main"}
MaxCalls == 3

NoInstance == [kind |-> "none", id |-> 0]
EnvInstance == [kind |-> "env", id |-> 0]
IdleThread == [pc |-> "idle", op |-> "none", name |-> "none", inst |-> NoInstance,
               result |-> NoInstance]

\* HashMap::get(name).cloned(): None is NoInstance.
HashMap_get(map, name) == IF name \in DOMAIN map THEN map[name] ELSE NoInstance

\* A write lock that does not wait for the readers to leave.
RwLock_write_ready_IgnoringReaders(lock) == lock.writer = "none"

\* RwLock::write returns once no other guard is alive.
RwLock_write_ready(lock) == lock.writer = "none" /\ lock.readers = {}

\* RwLock::read returns once no write guard is alive.
RwLock_read_ready(lock) == lock.writer = "none"

\* ProgramInstanceEssence::with_env_module, then no call yet.
InitProgram ==
    /\ CodecIdle
    /\ ValidatorIdle
    /\ NativeIdle
    /\ StackIdle
    /\ debug_assertions = FALSE
    /\ modules = HashMap_insert(<<>>, "env", EnvInstance)
    /\ rwlock = [writer |-> "none", readers |-> {}]
    /\ threads = [t \in Threads |-> IdleThread]
    /\ started = {EnvInstance}
    /\ calls = 0

Call(t, op, name, inst, pc) ==
    /\ threads[t].pc = "idle"
    /\ calls < MaxCalls
    /\ calls' = calls + 1
    /\ threads' = [threads EXCEPT ![t] = [pc |-> pc, op |-> op, name |-> name,
                                          inst |-> inst, result |-> NoInstance]]
    /\ UNCHANGED <<modules, rwlock, started>>
    /\ UNCHANGED <<codec_vars, validator_vars, native_vars, stack_vars>>

\* A thread calls add_module(name, module, externals).
add_module(t) ==
    \E name \in ModuleNames :
        Call(t, "add_module", name, [kind |-> "added", id |-> calls + 1], "instantiate")

\* ModuleInstance::new(..)? and instantiate(externals)?: an error returns.
instantiate(t) ==
    /\ threads[t].pc = "instantiate"
    /\ \/ threads' = [threads EXCEPT ![t].pc = "write"]
       \/ threads' = [threads EXCEPT ![t].pc = "idle"]
    /\ UNCHANGED <<modules, rwlock, started, calls>>
    /\ UNCHANGED <<codec_vars, validator_vars, native_vars, stack_vars>>

\* A thread calls insert_loaded_module(name, module_instance).
insert_loaded_module(t) ==
    \E name \in ModuleNames :
        Call(t, "insert_loaded_module", name, [kind |-> "loaded", id |-> calls + 1], "write")

\* self.essence.modules.write()
RwLock_write(t) ==
    /\ threads[t].pc = "write"
    /\ RwLock_write_ready(rwlock)
    /\ rwlock' = [rwlock EXCEPT !.writer = t]
    /\ threads' = [threads EXCEPT ![t].pc = "insert"]
    /\ UNCHANGED <<modules, started, calls>>
    /\ UNCHANGED <<codec_vars, validator_vars, native_vars, stack_vars>>

\* .insert(name.into(), module_instance.clone())
insert(t) ==
    /\ threads[t].pc = "insert"
    /\ modules' = HashMap_insert(modules, threads[t].name, threads[t].inst)
    /\ threads' = [threads EXCEPT ![t].pc = "drop_write"]
    /\ UNCHANGED <<rwlock, started, calls>>
    /\ UNCHANGED <<codec_vars, validator_vars, native_vars, stack_vars>>

\* The statement ends with the write guard kept alive.
drop_write_KeepingGuard(t) ==
    /\ threads[t].pc = "drop_write"
    /\ threads' = [threads EXCEPT
                       ![t].pc = IF threads[t].op = "add_module" THEN "run_start_function"
                                 ELSE "idle",
                       ![t].result = IF threads[t].op = "add_module" THEN NoInstance
                                     ELSE threads[t].inst]
    /\ UNCHANGED <<modules, rwlock, started, calls>>
    /\ UNCHANGED <<codec_vars, validator_vars, native_vars, stack_vars>>

\* The write guard is dropped; insert_loaded_module returns Ok(module_instance).
drop_write(t) ==
    /\ threads[t].pc = "drop_write"
    /\ rwlock' = [rwlock EXCEPT !.writer = "none"]
    /\ threads' = [threads EXCEPT
                       ![t].pc = IF threads[t].op = "add_module" THEN "run_start_function"
                                 ELSE "idle",
                       ![t].result = IF threads[t].op = "add_module" THEN NoInstance
                                     ELSE threads[t].inst]
    /\ UNCHANGED <<modules, started, calls>>
    /\ UNCHANGED <<codec_vars, validator_vars, native_vars, stack_vars>>

\* module_instance.run_start_function()? and Ok(module_instance): the start
\* function returns, or traps and add_module returns the error.
run_start_function(t) ==
    /\ threads[t].pc = "run_start_function"
    /\ started' = started \cup {threads[t].inst}
    /\ \/ threads' = [threads EXCEPT ![t].pc = "idle", ![t].result = threads[t].inst]
       \/ threads' = [threads EXCEPT ![t].pc = "idle"]
    /\ UNCHANGED <<modules, rwlock, calls>>
    /\ UNCHANGED <<codec_vars, validator_vars, native_vars, stack_vars>>

\* A thread calls module(name).
module(t) == \E name \in ModuleNames : Call(t, "module", name, NoInstance, "read")

\* self.modules.read()
RwLock_read(t) ==
    /\ threads[t].pc = "read"
    /\ RwLock_read_ready(rwlock)
    /\ rwlock' = [rwlock EXCEPT !.readers = @ \cup {t}]
    /\ threads' = [threads EXCEPT ![t].pc = "get"]
    /\ UNCHANGED <<modules, started, calls>>
    /\ UNCHANGED <<codec_vars, validator_vars, native_vars, stack_vars>>

\* .get(name).cloned()
get(t) ==
    /\ threads[t].pc = "get"
    /\ threads' = [threads EXCEPT ![t].pc = "drop_read",
                                  ![t].result = HashMap_get(modules, threads[t].name)]
    /\ UNCHANGED <<modules, rwlock, started, calls>>
    /\ UNCHANGED <<codec_vars, validator_vars, native_vars, stack_vars>>

\* The read guard is dropped and module returns.
drop_read(t) ==
    /\ threads[t].pc = "drop_read"
    /\ rwlock' = [rwlock EXCEPT !.readers = @ \ {t}]
    /\ threads' = [threads EXCEPT ![t].pc = "idle"]
    /\ UNCHANGED <<modules, started, calls>>
    /\ UNCHANGED <<codec_vars, validator_vars, native_vars, stack_vars>>

NextProgram ==
    \E t \in Threads :
        \/ add_module(t)
        \/ instantiate(t)
        \/ insert_loaded_module(t)
        \/ RwLock_write(t)
        \/ insert(t)
        \/ drop_write(t)
        \/ run_start_function(t)
        \/ module(t)
        \/ RwLock_read(t)
        \/ get(t)
        \/ drop_read(t)

SpecProgram == InitProgram /\ [][NextProgram]_vars

\* Thread t takes the step of module(name) that reads the map.
Gets(t) == threads[t].pc = "get" /\ threads'[t].pc = "drop_read"
\* The instances of the add_module calls that have not returned.
BeingAdded == {threads[u].inst : u \in {v \in Threads : threads[v].op = "add_module"
                                                        /\ threads[v].pc # "idle"}}

\* C19: no thread obtains through module(name) the instance of an add_module
\* that is in progress before the run_start_function of that instance has
\* returned.
C19_StartBeforeLookup ==
    [][ \A t \in Threads :
            (Gets(t) /\ threads'[t].result \in BeingAdded) =>
                threads'[t].result \in started ]_vars

\* C20: a writer excludes every reader and every other writer, while readers
\* may share the lock; the map changes only by the insertion of the thread
\* that holds the write lock, which registers its instance under its name in
\* place of the one there and leaves the other names alone; and a lookup
\* reads the map while no writer holds the lock, so that it returns the
\* instance registered before or after an insertion, never a state between.
C20_RegistryLocking ==
    [][ /\ rwlock.writer # "none" => rwlock.readers = {}
        /\ rwlock'.writer # "none" => rwlock'.readers = {}
        /\ modules' # modules =>
               \E t \in Threads :
                   /\ rwlock.writer = t
                   /\ rwlock.readers = {}
                   /\ threads[t].op \in {"add_module", "insert_loaded_module"}
                   /\ modules'[threads[t].name] = threads[t].inst
                   /\ \A n \in DOMAIN modules' \ {threads[t].name} :
                          n \in DOMAIN modules /\ modules'[n] = modules[n]
        /\ \A t \in Threads :
               Gets(t) =>
                   /\ rwlock.writer = "none"
                   /\ t \in rwlock.readers
                   /\ threads'[t].result = HashMap_get(modules, threads[t].name) ]_vars

\* Two lookups hold the lock together after an insertion replaced "main".
C20_Witness ==
    /\ Cardinality(rwlock.readers) >= 2
    /\ "main" \in DOMAIN modules
    /\ \E t \in rwlock.readers : threads[t].result = modules["main"]
\* C21: in every state of a program, "env" is registered and a lookup of
\* "env" returns Some; before any call the instance registered is the one
\* the program was created with; and no step removes a registered name.
C21_EnvStaysRegistered ==
    [][ /\ "env" \in DOMAIN modules /\ "env" \in DOMAIN modules'
        /\ HashMap_get(modules', "env") # NoInstance
        /\ calls = 0 => modules["env"] = EnvInstance
        /\ DOMAIN modules \subseteq DOMAIN modules'
        /\ \A t \in Threads :
               (Gets(t) /\ threads[t].name = "env") => threads'[t].result # NoInstance ]_vars

C21_Witness ==
    \E t \in Threads :
        /\ threads[t].op = "module"
        /\ threads[t].name = "env"
        /\ threads[t].result.kind = "added"
        /\ "main" \in DOMAIN modules
-----------------------------------------------------------------------------
(* The native module (interpreter/env_native.rs): a NativeModuleInstance    *)
(* wraps the env module and adds the user's functions and globals.  The     *)
(* list of descriptors is `pad` descriptors under names nobody asks for,    *)
(* followed by the descriptors of `functions`.                               *)

NATIVE_INDEX_FUNC_MIN == 10001
NATIVE_INDEX_GLOBAL_MIN == 20001

None == [is_some |-> FALSE, val |-> 0]
Some(v) == [is_some |-> TRUE, val |-> v]
Ok(v) == [err |-> OK, ret |-> v]
NativeError == "Native"
EnvError == "env"                \* an error of the wrapped module

Filler == [name |-> "filler", params |-> <<>>, return_type |-> NoValue]

\* self.functions.get(i)
functions_get(n, i) ==
    IF i < n.pad THEN Some(Filler)
    ELSE IF i < n.pad + Len(n.functions) THEN Some(n.functions[i - n.pad + 1])
    ELSE None

\* A by-name index that keeps the first descriptor of a name.
functions_by_name_get_First(n, name) ==
    LET named == {i \in 1..Len(n.functions) : n.functions[i].name = name}
    IN IF named = {} THEN None
       ELSE Some(n.pad + (CHOOSE i \in named : \A j \in named : i <= j) - 1)

\* self.functions_by_name.get(name): the map is collected from the list in
\* order, so that a later descriptor replaces an earlier one of its name.
functions_by_name_get(n, name) ==
    LET named == {i \in 1..Len(n.functions) : n.functions[i].name = name}
    IN IF named = {} THEN None
       ELSE Some(n.pad + (CHOOSE i \in named : \A j \in named : j <= i) - 1)

\* self.globals_by_name.get(name): the names of a HashMap are distinct.
globals_by_name_get(n, name) ==
    LET named == {i \in 1..Len(n.globals) : n.globals[i].name = name}
    IN IF named = {} THEN None ELSE Some((CHOOSE i \in named : TRUE) - 1)

\* env.function_type (interpreter/module.rs): the wrapped module knows the
\* functions of its own index space.
env_function_type(n, index) ==
    IF index < Len(n.env_functions) THEN Ok(n.env_functions[index + 1])
    ELSE [err |-> EnvError, ret |-> NoValue]

\* FunctionSignature == FunctionSignature, as UserFunctionDescriptor's eq.
FunctionSignature_eq(a, b) == a.params = b.params /\ a.return_type = b.return_type

\* A function_type that takes every index from the base on as native.
function_type_Unbounded(n, index) ==
    IF index < NATIVE_INDEX_FUNC_MIN THEN env_function_type(n, index)
    ELSE IF functions_get(n, index - NATIVE_INDEX_FUNC_MIN).is_some
         THEN Ok(functions_get(n, index - NATIVE_INDEX_FUNC_MIN).val)
         ELSE [err |-> NativeError, ret |-> NoValue]

function_type(n, index) ==
    IF index < NATIVE_INDEX_FUNC_MIN \/ index >= NATIVE_INDEX_GLOBAL_MIN
    THEN env_function_type(n, index)
    ELSE IF functions_get(n, index - NATIVE_INDEX_FUNC_MIN).is_some
         THEN Ok(functions_get(n, index - NATIVE_INDEX_FUNC_MIN).val)
         ELSE [err |-> NativeError, ret |-> NoValue]

\* env.export_entry (interpreter/module.rs): whatever the wrapped module
\* answers to the same question.
env_export_entry(name, required_type) ==
    Ok([kind |-> "Env", name |-> name, required_type |-> required_type])

Internal_Function(index) == Ok([kind |-> "Function", index |-> index])
Internal_Global(index) == Ok([kind |-> "Global", index |-> index])
ExportEntryType_Any == [kind |-> "Any"]
ExportEntryType_Function(sig) == [kind |-> "Function", sig |-> sig]
ExportEntryType_Global(t) == [kind |-> "Global", variable_type |-> t]

export_entry(n, name, required_type) ==
    LET f == functions_by_name_get(n, name)
        composite_index == NATIVE_INDEX_FUNC_MIN + f.val
        ft == function_type(n, composite_index)
        g == globals_by_name_get(n, name)
        by_global ==
            IF g.is_some /\ required_type.kind = "Any"
            THEN Internal_Global(NATIVE_INDEX_GLOBAL_MIN + g.val)
            ELSE IF /\ g.is_some
                    /\ required_type.kind = "Global"
                    /\ n.globals[g.val + 1].variable_type = required_type.variable_type
                 THEN Internal_Global(NATIVE_INDEX_GLOBAL_MIN + g.val)
            ELSE env_export_entry(name, required_type)
    IN IF f.is_some /\ required_type.kind = "Any" THEN Internal_Function(composite_index)
       ELSE IF f.is_some /\ required_type.kind = "Function"
            THEN IF ft.err # OK THEN [err |-> Panic, ret |-> NoValue]
                 ELSE IF FunctionSignature_eq(ft.ret, required_type.sig)
                      THEN Internal_Function(composite_index)
                 ELSE by_global
       ELSE by_global

\* A dispatch that takes every index from the base on as native.
call_target_Unbounded(n, index) ==
    IF index < NATIVE_INDEX_FUNC_MIN THEN [to |-> "env", name |-> "none"]
    ELSE IF functions_get(n, index - NATIVE_INDEX_FUNC_MIN).is_some
         THEN [to |-> "executor", name |-> functions_get(n, index - NATIVE_INDEX_FUNC_MIN).val.name]
         ELSE [to |-> "error", name |-> "none"]

\* Where call_internal_function(index) goes: to the wrapped module, to an
\* Error::Native, or to the executor with the name of the function.
call_target(n, index) ==
    IF index < NATIVE_INDEX_FUNC_MIN \/ index >= NATIVE_INDEX_GLOBAL_MIN
    THEN [to |-> "env", name |-> "none"]
    ELSE IF functions_get(n, index - NATIVE_INDEX_FUNC_MIN).is_some
         THEN [to |-> "executor", name |-> functions_get(n, index - NATIVE_INDEX_FUNC_MIN).val.name]
         ELSE [to |-> "error", name |-> "none"]

MaxNative == 2
MaxDepth == 2
NativeNames == {"f", "g"}
Signatures ==
    {[params |-> <<>>, return_type |-> NoValue], [params |-> <<"I32">>, return_type |-> "I32"]}
Descriptors ==
    {[name |-> nm, params |-> sg.params, return_type |-> sg.return_type] :
        nm \in NativeNames, sg \in Signatures}
\* No descriptor before those of interest, or so many that the last ones
\* get the indices around NATIVE_INDEX_GLOBAL_MIN.
Paddings ==
    {0, NATIVE_INDEX_GLOBAL_MIN - NATIVE_INDEX_FUNC_MIN - 1,
        NATIVE_INDEX_GLOBAL_MIN - NATIVE_INDEX_FUNC_MIN}
NativeGlobals ==
    {<<>>, <<[name |-> "g", variable_type |-> "I32"]>>,
     <<[name |-> "g", variable_type |-> "I32"], [name |-> "f", variable_type |-> "I64"]>>}
NativeModules ==
    [pad : Paddings, functions : SeqsUpTo(Descriptors, MaxNative), globals : NativeGlobals,
     env_functions : {<<[params |-> <<"I32">>, return_type |-> "I32"]>>}]
RequiredTypes ==
    {ExportEntryType_Any} \cup {ExportEntryType_Function(sg) : sg \in Signatures}
    \cup {ExportEntryType_Global(t) : t \in {"I32", "I64"}}
NativeIndexes ==
    {0, NATIVE_INDEX_FUNC_MIN - 1, NATIVE_INDEX_GLOBAL_MIN - 1, NATIVE_INDEX_GLOBAL_MIN}
    \cup {NATIVE_INDEX_FUNC_MIN + k : k \in 0..MaxNative}
    \cup {NATIVE_INDEX_GLOBAL_MIN + k : k \in 1..MaxNative}

\* NativeModuleInstance::new with an executor.
InitNative ==
    /\ CodecIdle
    /\ ValidatorIdle
    /\ ProgramIdle
    /\ StackIdle
    /\ debug_assertions = FALSE
    /\ native \in NativeModules
    /\ call_stack = <<>>
    /\ executor = 0
    /\ returned = [op |-> "none"]

\* No call is in progress, or the executor is running a native function and
\* makes Wasm code run that calls into the native module.
CanCall ==
    \/ call_stack = <<>>
    \/ /\ call_stack # <<>>
       /\ Len(call_stack) < MaxDepth
       /\ call_stack[Len(call_stack)].pc = "execute"

ExportEntry ==
    /\ CanCall
    /\ \E name \in NativeNames \cup {"h"}, required_type \in RequiredTypes :
           returned' = [op |-> "export_entry", name |-> name, required_type |-> required_type,
                        result |-> export_entry(native, name, required_type)]
    /\ UNCHANGED <<native, call_stack, executor>>
    /\ UNCHANGED <<codec_vars, validator_vars, program_vars, stack_vars>>

FunctionType ==
    /\ CanCall
    /\ \E index \in NativeIndexes :
           returned' = [op |-> "function_type", index |-> index,
                        result |-> function_type(native, index)]
    /\ UNCHANGED <<native, call_stack, executor>>
    /\ UNCHANGED <<codec_vars, validator_vars, program_vars, stack_vars>>

\* call_internal_function(outer, index) up to the executor's lock.
CallInternalFunction ==
    /\ CanCall
    /\ \E index \in NativeIndexes :
           LET target == call_target(native, index)
           IN IF target.to = "executor"
              THEN /\ call_stack' = Append(call_stack, [index |-> index, name |-> target.name,
                                                        pc |-> "write"])
                   /\ returned' = [op |-> "call_internal_function", index |-> index,
                                   result |-> "pending", name |-> target.name]
              ELSE /\ call_stack' = call_stack
                   /\ returned' = [op |-> "call_internal_function", index |-> index,
                                   result |-> target.to, name |-> target.name]
    /\ UNCHANGED <<native, executor>>
    /\ UNCHANGED <<codec_vars, validator_vars, program_vars, stack_vars>>

\* self.executor.write(): returns once no other guard is alive.
ExecutorWrite ==
    /\ call_stack # <<>>
    /\ call_stack[Len(call_stack)].pc = "write"
    /\ executor = 0
    /\ executor' = Len(call_stack)
    /\ call_stack' = [call_stack EXCEPT ![Len(call_stack)].pc = "execute"]
    /\ UNCHANGED <<native, returned>>
    /\ UNCHANGED <<codec_vars, validator_vars, program_vars, stack_vars>>

\* .execute(&f.name(), outer) returns; the guard is dropped with the statement.
ExecuteReturns ==
    /\ call_stack # <<>>
    /\ call_stack[Len(call_stack)].pc = "execute"
    /\ executor' = 0
    /\ returned' = [op |-> "call_internal_function", index |-> call_stack[Len(call_stack)].index,
                    result |-> "executor", name |-> call_stack[Len(call_stack)].name]
    /\ call_stack' = SubSeq(call_stack, 1, Len(call_stack) - 1)
    /\ UNCHANGED native
    /\ UNCHANGED <<codec_vars, validator_vars, program_vars, stack_vars>>

NextNative ==
    ExportEntry \/ FunctionType \/ CallInternalFunction \/ ExecutorWrite \/ ExecuteReturns

SpecNative == InitNative /\ [][NextNative]_vars

\* Each call in progress goes on when it can.
SpecNativeFair == SpecNative /\ WF_vars(ExecutorWrite) /\ WF_vars(ExecuteReturns)
\* The positions in the descriptor list of the native functions of a name.
PositionsOf(name) ==
    {native.pad + k - 1 : k \in {i \in 1..Len(native.functions) : native.functions[i].name = name}}
DescriptorAt(i) == native.functions[i - native.pad + 1]
GlobalPositionsOf(name) ==
    {k - 1 : k \in {i \in 1..Len(native.globals) : native.globals[i].name = name}}

\* C22: export_entry(name, required_type) returns Function(10001 + i) when
\* name is the i-th native function and required_type is Any or a signature
\* equal to that function's; otherwise Global(20001 + j) when name is the
\* j-th native global and required_type is Any or its variable type; and
\* otherwise what the wrapped module's export_entry returns.
C22_ExportEntryNativeFirst ==
    returned.op = "export_entry" =>
        LET rt == returned.required_type
            fs == {i \in PositionsOf(returned.name) :
                      \/ rt.kind = "Any"
                      \/ rt.kind = "Function" /\ FunctionSignature_eq(DescriptorAt(i), rt.sig)}
            gs == {j \in GlobalPositionsOf(returned.name) :
                      \/ rt.kind = "Any"
                      \/ /\ rt.kind = "Global"
                         /\ native.globals[j + 1].variable_type = rt.variable_type}
        IN IF fs # {}
           THEN \E i \in fs : returned.result = Internal_Function(NATIVE_INDEX_FUNC_MIN + i)
           ELSE IF gs # {}
                THEN \E j \in gs : returned.result = Internal_Global(NATIVE_INDEX_GLOBAL_MIN + j)
           ELSE returned.result = env_export_entry(returned.name, rt)
InNativeRange(index) == NATIVE_INDEX_FUNC_MIN <= index /\ index < NATIVE_INDEX_GLOBAL_MIN
NativeCount == native.pad + Len(native.functions)
\* The name of native function number k of the descriptor list.
NameOfNative(k) == IF k < native.pad THEN Filler.name ELSE native.functions[k - native.pad + 1].name

\* C23: call_internal_function(index) goes to the executor, with the name of
\* native function number index - 10001, exactly when index is in the native
\* range and that function exists; an index of the native range without a
\* function returns a Native error; every other index is delegated to the
\* wrapped module; and only calls of the first kind ever wait for or hold
\* the executor.
C23_CallDispatch ==
    /\ returned.op = "call_internal_function" =>
           LET index == returned.index
               exists == InNativeRange(index) /\ index - NATIVE_INDEX_FUNC_MIN < NativeCount
           IN /\ returned.result \in {"pending", "executor"} <=> exists
              /\ exists => returned.name = NameOfNative(index - NATIVE_INDEX_FUNC_MIN)
              /\ returned.result = "error" <=> (InNativeRange(index) /\ ~exists)
              /\ returned.result = "env" <=> ~InNativeRange(index)
    /\ \A d \in 1..Len(call_stack) :
           /\ InNativeRange(call_stack[d].index)
           /\ call_stack[d].index - NATIVE_INDEX_FUNC_MIN < NativeCount
           /\ call_stack[d].name = NameOfNative(call_stack[d].index - NATIVE_INDEX_FUNC_MIN)
    /\ executor # 0 => executor \in 1..Len(call_stack)

C23_Witness ==
    /\ returned.op = "call_internal_function"
    /\ returned.result = "executor"
    /\ returned.index = NATIVE_INDEX_FUNC_MIN + 1
    /\ returned.name = "g"
    /\ call_stack = <<>>
\* Index is the one export_entry returns for the native function at
\* position index - 10001 of the descriptor list.
ExportedNative(index) ==
    /\ index >= NATIVE_INDEX_FUNC_MIN + native.pad
    /\ index - NATIVE_INDEX_FUNC_MIN < NativeCount
    /\ export_entry(native, NameOfNative(index - NATIVE_INDEX_FUNC_MIN), ExportEntryType_Any)
           = Internal_Function(index)

\* C24: the index 10001 + i that export_entry returns for the native
\* function at position i is resolved by function_type to the descriptor of
\* that function and by call_internal_function to the executor with the name
\* of that function, whatever the length of the descriptor list.
C24_NativeIndexResolves ==
    /\ (returned.op = "function_type" /\ ExportedNative(returned.index)) =>
           returned.result = Ok(DescriptorAt(returned.index - NATIVE_INDEX_FUNC_MIN))
    /\ (returned.op = "call_internal_function" /\ ExportedNative(returned.index)) =>
           /\ returned.result \in {"pending", "executor"}
           /\ returned.name = NameOfNative(returned.index - NATIVE_INDEX_FUNC_MIN)
\* C25: a call_internal_function made while the executor is executing a
\* native function of the same module (a call at depth 2 or more) is
\* dispatched to the executor and returns.
C25_ReentrantCallCompletes ==
    \A d \in 2..MaxDepth : (Len(call_stack) >= d) ~> (Len(call_stack) < d)
----------------------------------------------------------------------------
(* LEB128 decoders on bytes of any origin: a caller reads an integer from   *)
(* bytes it did not write, writes the value back and reads that again.      *)

\* The longest byte string given to a decoder, and its alphabet.
MaxLeb == 5
LebBytes == {0, 1, 125, 128, 133, 255}

\* Runs of bytes with the continuation bit set, as long as the longest
\* encoding of a u32 (5 bytes) and of a u64 (10 bytes), and what follows.
ContinuationRuns ==
    {[i \in 1..k |-> c] \o t :
        k \in {5, 10}, c \in {128, 255}, t \in {<<>>, <<0>>, <<1>>, <<128, 0>>}}

LebInputs == SeqsUpTo(LebBytes, MaxLeb) \cup ContinuationRuns

\* Every i8.
Int8Values == SUBSET (0..7)

InitLeb ==
    /\ ValidatorIdle
    /\ ProgramIdle
    /\ NativeIdle
    /\ StackIdle
    /\ debug_assertions \in BOOLEAN
    /\ out = <<>>
    /\ res = NotRead
    /\ \/ /\ kind \in {"VarUint32", "VarUint64", "VarInt7", "VarInt32", "VarInt64"}
          /\ val = {}
          /\ tail = <<>>
          /\ buf \in LebInputs
          /\ phase = "bytes"
       \/ /\ kind = "VarInt7"
          /\ val \in Int8Values
          /\ tail \in Tails
          /\ buf = <<>>
          /\ phase = "value"

SpecLeb == InitLeb /\ [][NextCodec]_vars

----------------------------------------------------------------------------
(* Properties of the LEB128 decoders and encoders                           *)

\* The first k bytes of the reader all have the continuation bit set.
ContinuationPrefix(reader, k) ==
    Len(reader) >= k /\ \A i \in 1..k : reader[i] >= 128

\* The most bytes an encoding of the kind takes.
LongestOf(k) == IF k = "VarUint32" THEN 5 ELSE 10

InvalidOf(k) == IF k = "VarUint32" THEN "InvalidVarInt32" ELSE "InvalidVarInt64"

\* C27: deserializing a VarUint32 (VarUint64) from a reader whose first 5
\* (10) bytes all have the continuation bit set fails with InvalidVarInt32
\* (InvalidVarInt64) after those bytes: no further byte is read, and so no
\* group is shifted by the width or more.
C27_VarUintLengthLimit ==
    (/\ phase = "parsed"
     /\ kind \in {"VarUint32", "VarUint64"}
     /\ ContinuationPrefix(buf, LongestOf(kind))) =>
        /\ res.err = InvalidOf(kind)
        /\ res.n = LongestOf(kind)

\* The width of the signed kind.
SignedWidth(k) == IF k = "VarInt32" THEN 32 ELSE 64

\* v >> (7 * i) of a signed value of width w, as the loop has it after i groups.
RestAfter(v, i, w) == ShrArith(v, IF 7 * i < w THEN 7 * i ELSE w - 1, w)

\* The value is in the range of a two's complement integer of 7 * n bits:
\* bit 7n - 1 and every bit above it are equal.
FitsGroups(v, n, w) ==
    LET top == {i \in 0..(w - 1) : i >= 7 * n - 1}
    IN top \subseteq v \/ top \cap v = {}

\* C28: VarInt32 / VarInt64 serialization emits the 7-bit groups of the
\* value least significant first, the continuation bit on every byte but the
\* last, and stops at the first group after which the rest of the value
\* (shifted arithmetically) is 0 with bit 6 of the group clear or -1 with
\* bit 6 set; that is the shortest signed LEB128 encoding.  i32::MIN is
\* 80 80 80 80 78 and i32::MAX is ff ff ff ff 07.
C28_VarIntShortestEncoding ==
    (phase = "written" /\ kind \in {"VarInt32", "VarInt64"}) =>
        LET w == SignedWidth(kind)
            L == Len(out)
            stops(i) ==
                \/ RestAfter(val, i, w) = {} /\ ByteBit(out[i], 6) = 0
                \/ RestAfter(val, i, w) = AllOnes(w) /\ ByteBit(out[i], 6) = 1
        IN /\ L >= 1
           /\ \A i \in 1..L : out[i] % 128 = Low7(RestAfter(val, i - 1, w))
           /\ \A i \in 1..L : (out[i] >= 128) <=> (i < L)
           /\ \A i \in 1..L : stops(i) <=> (i = L)
           /\ FitsGroups(val, L, w)
           /\ \A n \in 1..(L - 1) : ~FitsGroups(val, n, w)
           /\ (kind = "VarInt32" /\ val = {31}) => out = <<128, 128, 128, 128, 120>>
           /\ (kind = "VarInt32" /\ val = 0..30) => out = <<255, 255, 255, 255, 7>>

\* i32::MAX was written as ff ff ff ff 07.
C28_Witness ==
    /\ phase = "written"
    /\ kind = "VarInt32"
    /\ val = 0..30
    /\ out = <<255, 255, 255, 255, 7>>

\* C29: for every byte string of at most 5 bytes that deserializes as a
\* VarUint32, padded encodings among them, serializing the value read gives
\* the minimal encoding of that value (its 7-bit groups least significant
\* first, no more groups than the value has), and deserializing the bytes
\* written gives the value again.
C29_VarUint32Normalizes ==
    (phase = "reread" /\ kind = "VarUint32" /\ Len(buf) <= 5) =>
        LET L == Len(out)
        IN /\ L >= 1
           /\ \A i \in 1..L : out[i] % 128 = Low7(ShrLogical(val, 7 * (i - 1)))
           /\ \A i \in 1..L : (out[i] >= 128) <=> (i < L)
           /\ ShrLogical(val, 7 * L) = {}
           /\ L > 1 => ShrLogical(val, 7 * (L - 1)) # {}
           /\ res.err = OK
           /\ res.val = val
           /\ res.n = L

\* 85 80 80 80 00, a padded encoding of 5, was read, written back as 05 and
\* read again.
C29_Witness ==
    /\ phase = "reread"
    /\ kind = "VarUint32"
    /\ buf = <<133, 128, 128, 128, 0>>
    /\ out = <<5>>
    /\ res.val = {0, 2}

\* An i8 within the range of a VarInt7, -64..63: bits 6 and 7 are equal.
InVarInt7Range(v) == (7 \in v) <=> (6 \in v)

\* C30: VarInt7 deserialization reads one byte and extends its bit 6 into
\* the sign: the bits of the byte are kept and bit 7 is set when bit 6 is,
\* so 7d reads as -3; and for every v in -64..63, deserializing the byte
\* that serialization wrote gives v.
C30_VarInt7SignExtension ==
    /\ (phase = "parsed" /\ kind = "VarInt7" /\ buf # <<>>) =>
          LET bits == ByteBits(buf[1])
          IN /\ res.err = OK
             /\ res.n = 1
             /\ res.val = bits \cup (IF 6 \in bits THEN {7} ELSE {})
             /\ buf[1] = 125 => res.val = {0, 2, 3, 4, 5, 6, 7}
    /\ (phase = "read" /\ kind = "VarInt7" /\ InVarInt7Range(val)) =>
          /\ Len(out) = 1
          /\ out[1] < 128
          /\ res.err = OK
          /\ res.n = 1
          /\ res.val = val

\* -3 was written as 7d and read back as -3.
C30_Witness ==
    /\ phase = "read"
    /\ kind = "VarInt7"
    /\ val = {0, 2, 3, 4, 5, 6, 7}
    /\ out = <<125>>
    /\ res.val = {0, 2, 3, 4, 5, 6, 7}

----------------------------------------------------------------------------
(* CountedWriter (elements/primitives.rs): a caller opens a counted writer  *)
(* on a writer, writes chunks to it and calls done().  Here buf is the      *)
(* data field, out the underlying writer, tail what the underlying writer   *)
(* held when the counted writer was made, val the chunks written so far.    *)

\* The most write calls before done(), and the chunks written.
MaxWrites == 3
Chunks == {<<>>, <<7>>, <<0, 255>>, NameOfLen(127)}

\* CountedWriter::new on a writer that may hold bytes already.
InitCountedWriter ==
    /\ ValidatorIdle
    /\ ProgramIdle
    /\ NativeIdle
    /\ StackIdle
    /\ debug_assertions = FALSE
    /\ kind = "CountedWriter"
    /\ val = <<>>
    /\ tail \in {<<>>, <<1>>}
    /\ buf = <<>>
    /\ out = tail
    /\ res = NotRead
    /\ phase = "open"

\* io::Write::write of CountedWriter: the chunk goes to data.
CountedWriter_write ==
    /\ phase = "open"
    /\ Len(val) < MaxWrites
    /\ \E chunk \in Chunks :
          /\ buf' = buf \o chunk
          /\ val' = Append(val, chunk)
    /\ UNCHANGED <<kind, tail, out, res, phase, debug_assertions>>
    /\ UNCHANGED <<validator_vars, program_vars, native_vars, stack_vars>>

\* CountedWriter::done: the length and the data go to the underlying writer.
CountedWriter_finish ==
    /\ phase = "open"
    /\ out' = out \o CountedWriter_done(buf)
    /\ phase' = "done"
    /\ UNCHANGED <<kind, val, tail, buf, res, debug_assertions>>
    /\ UNCHANGED <<validator_vars, program_vars, native_vars, stack_vars>>

NextCountedWriter == CountedWriter_write \/ CountedWriter_finish

SpecCountedWriter == InitCountedWriter /\ [][NextCountedWriter]_vars

\* The chunks one after another.
RECURSIVE Concat(_)
Concat(chunks) ==
    IF chunks = <<>> THEN <<>> ELSE Head(chunks) \o Concat(Tail(chunks))

\* The LEB128 bytes of a length below 2^14.
LengthPrefix(n) == IF n < 128 THEN <<n>> ELSE <<128 + (n % 128), n \div 128>>

\* C31: the underlying writer receives nothing before done() is called, and
\* at done() it receives VarUint32(n) and then exactly the n bytes written,
\* in the order of the writes, n being the total number of bytes written.
C31_CountedWriterPrefix ==
    /\ (kind = "CountedWriter" /\ phase = "open") => out = tail
    /\ (kind = "CountedWriter" /\ phase = "done") =>
          LET written == Concat(val)
          IN out = tail \o LengthPrefix(Len(written)) \o written

\* Three writes of 127, 1 and 2 bytes were followed by done(): the writer
\* got the two-byte length 130 and the 130 bytes.
C31_Witness ==
    /\ kind = "CountedWriter"
    /\ phase = "done"
    /\ val = <<NameOfLen(127), <<7>>, <<0, 255>>>>
    /\ Len(out) = Len(tail) + 2 + 130
    /\ out[Len(tail) + 1] = 130
    /\ out[Len(tail) + 2] = 1
\* Thread t's add_module returns an error on this step: ModuleInstance::new
\* or instantiate failed, or the start function trapped.
AddModuleFails(t) ==
    /\ threads[t].op = "add_module"
    /\ threads[t].pc # "idle"
    /\ threads'[t].pc = "idle"
    /\ threads'[t].result = NoInstance

\* C32: when add_module(name, ..) returns an error, the registry is as it
\* was before the call; in particular name is not left bound to the
\* instance that failed.
C32_FailedAddLeavesRegistry ==
    [][ \A t \in Threads :
            AddModuleFails(t) =>
                HashMap_get(modules', threads[t].name) # threads[t].inst ]_vars
-----------------------------------------------------------------------------
(* Properties of validate_function as a whole                               *)

\* C33: validate_function ends by returning Ok or a validation error and
\* never panics: check_stack_access always finds a topmost block, also for
\* the opcodes after the End that closes the function frame, and the body
\* is never indexed at or beyond its length.
C33_ValidationNeverPanics ==
    /\ error \notin {Panic, PanicTopmostBlock}
    /\ vstate = "running" => position < body_len

\* C34: validate_function returns Ok only for a body whose frames are all
\* closed by an End of the body, the function frame by the last opcode: the
\* loop after the body closes no frame on the way to Ok (a pop there that
\* empties the frame stack is followed by Ok), and the opcode validated last
\* is an End.
C34_OkOnlyWhenTerminatedByEnd ==
    [][ /\ (vstate = "closing" /\ frame_stack # <<>>) =>
               ~(vstate' = "closing" /\ frame_stack' = <<>>)
        /\ vstate' = "ok" => opcode.op = "End" ]_vars

\* C35: while validation is under way and the frame stack is not empty, the
\* operand stack is at least as long as the innermost frame's
\* value_stack_len, and the value_stack_len of the frames does not decrease
\* from the outermost frame to the innermost; so the resize of pop_label
\* never enlarges the operand stack.
C35_FrameBasesWithinStack ==
    /\ (vstate \in {"running", "closing"} /\ frame_stack # <<>>) =>
        /\ Len(value_stack) >= TopFrame.value_stack_len
        /\ \A i \in 1..(Len(frame_stack) - 1) :
               frame_stack[i].value_stack_len <= frame_stack[i + 1].value_stack_len
    /\ error # Panic

\* A block opened above one operand is about to be closed by the loop after
\* the body, in a build with debug assertions.
C35_Witness ==
    /\ vstate = "closing"
    /\ debug_assertions
    /\ Len(frame_stack) = 2
    /\ TopFrame.value_stack_len = 1
    /\ Len(value_stack) = 1
-----------------------------------------------------------------------------
(* StackWithLimit on its own (common/stack.rs): a caller makes a stack with *)
(* with_limit or with_data and calls push, push_penultimate, pop and        *)
(* resize on it.                                                             *)

\* The largest limit, and the values stacked.
MaxStackLimit == 2
StackItems == {"a", "b"}

\* StackWithLimit::with_limit(limit), or with_data(data, limit).
InitStack ==
    /\ CodecIdle
    /\ ValidatorIdle
    /\ ProgramIdle
    /\ NativeIdle
    /\ debug_assertions \in BOOLEAN
    /\ \E limit \in 0..MaxStackLimit :
          \/ stack = [values |-> <<>>, limit |-> limit, err |-> OK]
          \/ \E data \in SeqsUpTo(StackItems, MaxStackLimit + 1) :
                stack = [values |-> data, limit |-> limit, err |-> OK]

\* The stack after a call that returned r; after a panic no call is made.
StackAfter(r) ==
    /\ stack.err # Panic
    /\ stack' = [stack EXCEPT !.values = r.values, !.err = r.err]
    /\ UNCHANGED <<codec_vars, validator_vars, program_vars, native_vars>>

Stack_push ==
    \E value \in StackItems : StackAfter(StackWithLimit_push(stack.values, stack.limit, value))

Stack_push_penultimate ==
    \E value \in StackItems :
        StackAfter(StackWithLimit_push_penultimate(stack.values, stack.limit, value))

Stack_pop == StackAfter(StackWithLimit_pop(stack.values))

Stack_resize ==
    \E new_size \in 0..(MaxStackLimit + 1), dummy \in StackItems :
        StackAfter(StackWithLimit_resize(stack.values, new_size, dummy, debug_assertions))

NextStack == Stack_push \/ Stack_push_penultimate \/ Stack_pop \/ Stack_resize

SpecStack == InitStack /\ [][NextStack]_vars

\* C36: a StackWithLimit made by with_limit or with_data holds at most
\* limit() values after any sequence of push, push_penultimate, pop and
\* resize calls.
C36_LenWithinLimit == Len(stack.values) <= stack.limit
-----------------------------------------------------------------------------
(* The signed decoders on bytes of any origin                               *)

\* The most bytes a signed decoder reads.
SignedLongest(k) == IF k = "VarInt32" THEN 5 ELSE 10

SignedInvalid(k) == IF k = "VarInt32" THEN "InvalidVarInt32" ELSE "InvalidVarInt64"

-----------------------------------------------------------------------------
(* add_module with a start function that looks modules up: the code run by  *)
(* run_start_function calls module(name) on the program it is added to.    *)

\* The start function of the module thread t is adding calls module(name).
start_module(t) ==
    /\ threads[t].pc = "run_start_function"
    /\ calls < MaxCalls
    /\ calls' = calls + 1
    /\ threads' = [threads EXCEPT ![t].pc = "start_read"]
    /\ UNCHANGED <<modules, rwlock, started>>
    /\ UNCHANGED <<codec_vars, validator_vars, native_vars, stack_vars>>

\* self.modules.read(), called from the start function.
start_RwLock_read(t) ==
    /\ threads[t].pc = "start_read"
    /\ RwLock_read_ready(rwlock)
    /\ rwlock' = [rwlock EXCEPT !.readers = @ \cup {t}]
    /\ threads' = [threads EXCEPT ![t].pc = "start_get"]
    /\ UNCHANGED <<modules, started, calls>>
    /\ UNCHANGED <<codec_vars, validator_vars, native_vars, stack_vars>>

\* .get(name).cloned(), for the name the start function asks for.
start_get(t) ==
    /\ threads[t].pc = "start_get"
    /\ \E name \in ModuleNames :
          threads' = [threads EXCEPT ![t].pc = "start_drop_read",
                                     ![t].result = HashMap_get(modules, name)]
    /\ UNCHANGED <<modules, rwlock, started, calls>>
    /\ UNCHANGED <<codec_vars, validator_vars, native_vars, stack_vars>>

\* The read guard is dropped and the start function goes on.
start_drop_read(t) ==
    /\ threads[t].pc = "start_drop_read"
    /\ rwlock' = [rwlock EXCEPT !.readers = @ \ {t}]
    /\ threads' = [threads EXCEPT ![t].pc = "run_start_function", ![t].result = NoInstance]
    /\ UNCHANGED <<modules, started, calls>>
    /\ UNCHANGED <<codec_vars, validator_vars, native_vars, stack_vars>>

\* A step of a call in progress: the scheduler runs every thread that can
\* take one.
Proceed(t) ==
    \/ instantiate(t)
    \/ RwLock_write(t)
    \/ insert(t)
    \/ drop_write(t)
    \/ run_start_function(t)
    \/ RwLock_read(t)
    \/ get(t)
    \/ drop_read(t)
    \/ start_RwLock_read(t)
    \/ start_get(t)
    \/ start_drop_read(t)

\* The threads that make calls here: one adds a module, another contends.
StartThreads == {"t1", "t2"}

NextStart ==
    \E t \in StartThreads :
        \/ add_module(t)
        \/ insert_loaded_module(t)
        \/ module(t)
        \/ start_module(t)
        \/ Proceed(t)

SpecStart ==
    InitProgram /\ [][NextStart]_vars /\ \A t \in StartThreads : WF_vars(Proceed(t))

\* The start function of thread t's module is running.
InStart(t) ==
    threads[t].pc \in {"run_start_function", "start_read", "start_get", "start_drop_read"}

\* C38: add_module holds the write lock of the registry for the insertion
\* only, not while the start function runs, so a start function that looks
\* modules up in the same registry gets its answer, and every add_module
\* returns.
C38_StartFunctionLooksUp ==
    /\ [](\A t \in Threads : InStart(t) => rwlock.writer # t)
    /\ \A t \in Threads :
          (threads[t].pc = "start_read") ~> (threads[t].pc = "start_drop_read")
    /\ \A t \in Threads :
          (threads[t].op = "add_module" /\ threads[t].pc # "idle") ~> (threads[t].pc = "idle")

\* A start function has looked "main" up while another thread was inserting.
C38_Witness ==
    \E t \in Threads, u \in Threads :
        /\ t # u
        /\ threads[t].pc = "start_drop_read"
        /\ threads[t].result = threads[t].inst
        /\ threads[u].pc \in {"write", "insert"}
-----------------------------------------------------------------------------
(* Threads that share one native module: each calls call_internal_function. *)
(* Here call_stack[i] is the call of thread i, and executor the thread      *)
(* whose call holds the write guard of the executor's lock (0: nobody).     *)

MaxNativeThreads == 2
NativeThreads == 1..MaxNativeThreads

NoCall == [index |-> 0, name |-> "none", pc |-> "idle"]

\* A write() that does not wait for the guard to be dropped.
executor_write_ready_Always(lock) == TRUE

\* RwLock::write on the executor returns once no guard is alive.
executor_write_ready(lock) == lock = 0

\* The native modules the threads call: the lock does not depend on the
\* globals nor on the signatures, so those take one value each.
ThreadModules ==
    {n \in NativeModules :
        /\ n.globals = <<>>
        /\ \A k \in 1..Len(n.functions) : n.functions[k].params = <<>>}

InitNativeThreads ==
    /\ CodecIdle
    /\ ValidatorIdle
    /\ ProgramIdle
    /\ StackIdle
    /\ debug_assertions = FALSE
    /\ native \in ThreadModules
    /\ call_stack = [i \in NativeThreads |-> NoCall]
    /\ executor = 0
    /\ returned = [op |-> "none"]

\* Thread i calls call_internal_function(outer, index): up to the lock.
ThreadCallInternalFunction(i) ==
    /\ call_stack[i].pc = "idle"
    /\ \E index \in NativeIndexes :
           LET target == call_target(native, index)
           IN IF target.to = "executor"
              THEN /\ call_stack' = [call_stack EXCEPT
                                        ![i] = [index |-> index, name |-> target.name,
                                                pc |-> "write"]]
                   /\ returned' = [op |-> "call_internal_function", index |-> index,
                                   result |-> "pending", name |-> target.name]
              ELSE /\ call_stack' = call_stack
                   /\ returned' = [op |-> "call_internal_function", index |-> index,
                                   result |-> target.to, name |-> target.name]
    /\ UNCHANGED <<native, executor>>
    /\ UNCHANGED <<codec_vars, validator_vars, program_vars, stack_vars>>

\* self.executor.write() returns to thread i, which calls execute.
ThreadExecutorWrite(i) ==
    /\ call_stack[i].pc = "write"
    /\ executor_write_ready(executor)
    /\ executor' = i
    /\ call_stack' = [call_stack EXCEPT ![i].pc = "execute"]
    /\ UNCHANGED <<native, returned>>
    /\ UNCHANGED <<codec_vars, validator_vars, program_vars, stack_vars>>

\* execute returns to thread i; the guard is dropped with the statement.
ThreadExecuteReturns(i) ==
    /\ call_stack[i].pc = "execute"
    /\ executor' = 0
    /\ returned' = [op |-> "call_internal_function", index |-> call_stack[i].index,
                    result |-> "executor", name |-> call_stack[i].name]
    /\ call_stack' = [call_stack EXCEPT ![i] = NoCall]
    /\ UNCHANGED native
    /\ UNCHANGED <<codec_vars, validator_vars, program_vars, stack_vars>>

NextNativeThreads ==
    \E i \in NativeThreads :
        \/ ThreadCallInternalFunction(i)
        \/ ThreadExecutorWrite(i)
        \/ ThreadExecuteReturns(i)

SpecNativeThreads == InitNativeThreads /\ [][NextNativeThreads]_vars

\* The threads whose call is inside execute.
Executing == {i \in NativeThreads : call_stack[i].pc = "execute"}

\* C39: at most one execute of the executor is in progress at any time, and
\* the thread that runs it holds the executor's write guard for as long as
\* it runs: threads calling native functions of one module are serialized.
C39_ExecuteSerialized ==
    /\ Cardinality(Executing) <= 1
    /\ \A i \in Executing : executor = i

\* One thread is inside execute while another waits for the lock.
C39_Witness ==
    \E i \in NativeThreads, j \in NativeThreads :
        /\ call_stack[i].pc = "execute"
        /\ call_stack[j].pc = "write"
        /\ executor = i
-----------------------------------------------------------------------------
(* Construction of a native module: native holds the UserDefinedElements    *)
(* given to NativeModuleInstance::new (its field executor tells whether an  *)
(* executor is supplied) and, once new has returned Ok, the instance made   *)
(* of them.                                                                  *)

FunctionErrorMsg ==
    "trying to construct native env module with functions, but without executor"

\* A constructor that takes any elements.
NativeModuleInstance_new_Unchecked(elements) == OK

\* NativeModuleInstance::new: the Err, or OK for Ok(instance).
NativeModuleInstance_new(elements) ==
    IF elements.pad + Len(elements.functions) # 0 /\ ~elements.executor
    THEN FunctionErrorMsg
    ELSE OK

\* .as_mut().expect(..) on the executor of instance n.
executor_expect(n) == IF n.executor THEN OK ELSE Panic

UserDefinedElements ==
    [pad : Paddings, functions : SeqsUpTo(Descriptors, MaxNative), globals : NativeGlobals,
     env_functions : {<<[params |-> <<"I32">>, return_type |-> "I32"]>>},
     executor : BOOLEAN]

InitNativeNew ==
    /\ CodecIdle
    /\ ValidatorIdle
    /\ ProgramIdle
    /\ StackIdle
    /\ debug_assertions = FALSE
    /\ native \in UserDefinedElements
    /\ call_stack = <<>>
    /\ executor = 0
    /\ returned = [op |-> "none"]

\* env_native_module(env, user_elements)
NativeNew ==
    /\ returned.op = "none"
    /\ returned' = [op |-> "new", result |-> NativeModuleInstance_new(native)]
    /\ UNCHANGED <<native, call_stack, executor>>
    /\ UNCHANGED <<codec_vars, validator_vars, program_vars, stack_vars>>

\* new has returned Ok(instance), and no call on the instance has panicked.
Constructed ==
    \/ returned.op = "new" /\ returned.result = OK
    \/ returned.op = "call_internal_function" /\ returned.result # Panic

\* call_internal_function(outer, index) on the instance, from its call to
\* its return.
NewCallInternalFunction ==
    /\ Constructed
    /\ \E index \in NativeIndexes :
           LET target == call_target(native, index)
           IN returned' = [op |-> "call_internal_function", index |-> index,
                           name |-> target.name,
                           result |-> IF target.to = "executor" /\ executor_expect(native) # OK
                                      THEN Panic ELSE target.to]
    /\ UNCHANGED <<native, call_stack, executor>>
    /\ UNCHANGED <<codec_vars, validator_vars, program_vars, stack_vars>>

NextNativeNew == NativeNew \/ NewCallInternalFunction

SpecNativeNew == InitNativeNew /\ [][NextNativeNew]_vars

\* C40: new fails with a Function error exactly when the function list is
\* not empty and no executor is supplied; so every constructed instance
\* with functions has an executor, and the expect on the executor in
\* call_internal_function never fails.
C40_ExecutorPresent ==
    /\ returned.op = "new" =>
          (returned.result = FunctionErrorMsg <=> (NativeCount # 0 /\ ~native.executor))
    /\ Constructed => (NativeCount # 0 => native.executor)
    /\ returned.op = "call_internal_function" => returned.result # Panic

\* An instance with functions and an executor was constructed and a call
\* went through the expect to the executor.
C40_Witness ==
    /\ returned.op = "call_internal_function"
    /\ returned.result = "executor"
    /\ NativeCount # 0
    /\ native.executor

=============================================================================
